---- MODULE Spec2Model ----
(***************************************************************************)
(* A model of the MCP-Hub gateway: the session manager, the connection     *)
(* pool, the id mapper, the multiplexer (initialize, tools/list) and the   *)
(* protocol handler (handle_request, tools/call).                          *)
(*                                                                         *)
(* Strings that the code inspects character by character (provider and     *)
(* tool names) are sequences of one-character strings.  JSON values are    *)
(* records with a type tag t, so that 7 and "7" are different values.      *)
(***************************************************************************)
EXTENDS Integers, Sequences, FiniteSets, TLC

(***************************************************************************)
(* Bounds of the model.                                                    *)
(***************************************************************************)
MaxSessions == 1
MaxOps == 3
MaxTicks == 2
MaxRestarts == 1

(***************************************************************************)
(* Python values.                                                          *)
(***************************************************************************)
None == [t |-> "null"]
JInt(s) == [t |-> "int", v |-> s]       \* an integer, by its decimal digits
JStr(s) == [t |-> "str", v |-> s]       \* a string
JName(cs) == [t |-> "name", v |-> cs]   \* a string given character by character
JArr(xs) == [t |-> "list", v |-> xs]    \* a JSON array
JObj(d) == [t |-> "object", d |-> d]    \* a JSON object: a dict
Absent == [t |-> "absent"]              \* a key that a dict does not have

\* Python truthiness of a value (bool(x)).
truthy(j) ==
  CASE j.t = "null" -> FALSE
    [] j.t = "int" -> j.v # "0"
    [] j.t = "str" -> j.v # ""
    [] j.t = "name" -> j.v # <<>>
    [] j.t = "list" -> j.v # <<>>
    [] j.t = "object" -> DOMAIN j.d # {}
    [] OTHER -> TRUE

\* isinstance(x, dict)
isdict(j) == j.t = "object"

\* A dict from a record of optional entries: the Absent ones are left out.
Dict(r) == [k \in {x \in DOMAIN r : r[x] # Absent} |-> r[k]]

\* Python's  a or b.
pyOr(a, b) == IF truthy(a) THEN a ELSE b

\* Python's str(x) for a JSON scalar.
pyStr(j) == IF j.t = "null" THEN "None" ELSE j.v

\* dict[k] = v
Put(m, k, v) == [x \in (DOMAIN m) \cup {k} |-> IF x = k THEN v ELSE m[x]]

\* dict.update(other)
Update(m, other) ==
  [x \in (DOMAIN m) \cup (DOMAIN other) |-> IF x \in DOMAIN other THEN other[x] ELSE m[x]]

\* dict.get(k) with None as the default
Get(m, k) == IF k \in DOMAIN m THEN m[k] ELSE None

EmptyDict == <<>>

\* F applied to the value of v: a local variable assigned once.
With(v, F(_)) == CHOOSE r \in {F(x) : x \in {v}} : TRUE

\* The keys of a list of names in first-insertion order (a dict's key order).
RECURSIVE DictKeys(_)
DictKeys_first(s) == IF s = <<>> THEN <<>> ELSE <<s[1]>>
DictKeys(s) ==
  IF s = <<>> THEN <<>>
  ELSE LET front == DictKeys(SubSeq(s, 1, Len(s) - 1))
           last == s[Len(s)]
       IN IF \E i \in 1..Len(front) : front[i] = last THEN front ELSE Append(front, last)

Range(s) == {s[i] : i \in 1..Len(s)}

(***************************************************************************)
(* Names.  Characters of the model's alphabet that match [a-zA-Z0-9_-].    *)
(***************************************************************************)
SafeChars == {"a", "b", "p", "w", "x", "z", "q", "_", "-"}

\* re.sub(r"[^a-zA-Z0-9_-]", "_", s)
sanitize(s) == [i \in 1..Len(s) |-> IF s[i] \in SafeChars THEN s[i] ELSE "_"]

make_prefixed_tool_name(provider, name) ==
  sanitize(provider) \o <<"_", "_">> \o sanitize(name)

(***************************************************************************)
(* The registry: provider configurations.                                  *)
(***************************************************************************)
PA == <<"a">>
PB == <<"b", ".">>
PW == <<"w">>
PZ == <<"z">>

ProviderConfig(name, protocol, auth_type, persist) ==
  [name |-> name, protocol |-> protocol, auth_type |-> auth_type,
   api_key_header_name |-> None, extra_headers |-> EmptyDict,
   persist_response_headers |-> persist]

FullRegistry ==
  (PA :> ProviderConfig(PA, "http", None, <<"Mcp-Session-Id">>)) @@
  (PB :> ProviderConfig(PB, "HTTP", JStr("bearer"), <<>>)) @@
  (PW :> ProviderConfig(PW, "websocket", None, <<>>))

\* The registry after provider PA was removed from registry.yaml.
ShrunkRegistry ==
  (PB :> ProviderConfig(PB, "HTTP", JStr("bearer"), <<>>)) @@
  (PW :> ProviderConfig(PW, "websocket", None, <<>>))

Registries == {FullRegistry, ShrunkRegistry}

\* str.lower() on the header names and protocol names of the model
lower(s) ==
  CASE s = "Mcp-Session-Id" -> "mcp-session-id"
    [] s = "HTTP" -> "http"
    [] OTHER -> s

VARIABLES
  registry,        \* RegistryLoader._providers of the running process
  store,           \* the sessions table: a sequence of MCPGatewaySession rows, id = index
  runtimes,        \* SessionManager._runtime_sessions: session id -> RuntimeSessionState
  pool,            \* ConnectionManager._handles: the set of (session id, provider) keys
  handles,         \* the BackendHandle objects: (session id, provider) -> [closed, headers]
  idmap,           \* IdMapper._backend_to_client: "session:provider" -> backend id -> client id
  nextId,          \* the number of backend ids uuid4 has produced
  now,             \* time.time()
  resp,            \* the outcome of the latest HTTP request
  sent,            \* the upstream requests sent while serving the latest HTTP request
  seen,            \* per (session id, provider): persisted-header observations of upstream responses
  known,           \* per session id: the tool map that the client's latest request left
  inits,           \* per session id: the latest successful initialize: replies, tools, tool map
  tasks,           \* the concurrent get_or_create_handle calls: task -> its position and data
  lock,            \* ConnectionManager._lock: its owner; and the position of aclose_all
  ops,             \* the number of steps taken since the sessions were created
  restarts,        \* the number of process restarts
  running          \* whether the process is serving (between startup and shutdown)

vars == <<registry, store, runtimes, pool, handles, idmap, nextId, now, resp, sent,
          seen, known, inits, tasks, lock, ops, restarts, running>>

(***************************************************************************)
(* AuthManager.                                                            *)
(***************************************************************************)
Raise(exc) == [ok |-> FALSE, exc |-> exc]

\* AuthManager.build_headers: the headers, or the ValueError it raises.
build_headers(provider, credentials) ==
  LET headers == provider.extra_headers
      auth_type == lower(pyOr(provider.auth_type, JStr("none")).v)
  IN IF auth_type \in {"none", ""} THEN [ok |-> TRUE, headers |-> headers]
     ELSE IF auth_type = "bearer" THEN
       LET token == Get(credentials, "token")
       IN IF ~truthy(token) THEN Raise("ValueError")
          ELSE [ok |-> TRUE, headers |-> Put(headers, "authorization", "Bearer " \o token.v)]
     ELSE IF auth_type = "api_key" THEN
       LET key == pyOr(Get(credentials, "api_key"),
                       pyOr(Get(credentials, "key"), Get(credentials, "token")))
           header_name == pyOr(provider.api_key_header_name, JStr("x-api-key")).v
       IN IF ~truthy(key) THEN Raise("ValueError")
          ELSE [ok |-> TRUE, headers |-> Put(headers, header_name, key.v)]
     ELSE Raise("ValueError")

(***************************************************************************)
(* ConnectionManager and BackendHandle.                                    *)
(***************************************************************************)
BackendHandle(headers) == [closed |-> FALSE, headers |-> headers]

\* ConnectionManager.get_or_create_handle on the table pl and the handle
\* objects hs: the table and the objects after the call.
get_or_create_handle_unpooled(pl, hs, session_id, provider_name, headers, runtime) ==
  [pool |-> pl,
   handles |-> Put(hs, <<session_id, provider_name>>, BackendHandle(headers))]
get_or_create_handle(pl, hs, session_id, provider_name, headers, runtime) ==
  LET key == <<session_id, provider_name>>
  IN IF key \in pl THEN [pool |-> pl, handles |-> hs]
     ELSE LET merged_headers ==
                IF runtime = None THEN headers
                ELSE Update(headers,
                            IF provider_name \in DOMAIN runtime.provider_session_headers
                            THEN runtime.provider_session_headers[provider_name]
                            ELSE EmptyDict)
          IN [pool |-> pl \cup {key}, handles |-> Put(hs, key, BackendHandle(headers))]

\* ConnectionManager._lock when nothing holds it and aclose_all is not
\* running; closes counts the aclose_all calls that have ended.
FreeLock == [owner |-> [t |-> "free"], closer |-> "idle", closes |-> 0]

\* BackendHandle.update_headers
update_headers(hs, key, headers) ==
  [hs EXCEPT ![key].headers = Update(hs[key].headers, headers)]

\* ConnectionManager.aclose_all: every handle of the table is closed.
aclose_all(pl, hs) ==
  [k \in DOMAIN hs |-> IF k \in pl THEN [hs[k] EXCEPT !.closed = TRUE] ELSE hs[k]]

(***************************************************************************)
(* SessionManager.                                                         *)
(***************************************************************************)
RuntimeSessionState(connections) ==
  [connections |-> connections,
   tool_name_map |-> EmptyDict,
   provider_session_headers |-> EmptyDict,
   cached_tools |-> None,
   cached_tools_ts |-> None,
   cached_tools_providers |-> None]

\* The loop of _build_runtime_state from server i on: the pool, the handles
\* and the names installed in connections, or the exception that ends it.
RECURSIVE build_loop(_, _, _, _, _, _, _)
build_loop(reg, db_session, id, i, pl, hs, names) ==
  IF i > Len(db_session.servers)
  THEN [ok |-> TRUE, pool |-> pl, handles |-> hs, names |-> names]
  ELSE LET name == db_session.servers[i].name
       IN IF name \notin DOMAIN reg
          THEN [ok |-> FALSE, exc |-> "KeyError", pool |-> pl, handles |-> hs]
          ELSE LET creds_for_provider ==
                     IF name \in DOMAIN db_session.credentials
                     THEN db_session.credentials[name] ELSE EmptyDict
                   h == build_headers(reg[name], creds_for_provider)
               IN IF ~h.ok
                  THEN [ok |-> FALSE, exc |-> h.exc, pool |-> pl, handles |-> hs]
                  ELSE LET g == get_or_create_handle(pl, hs, id, name, h.headers, None)
                       IN build_loop(reg, db_session, id, i + 1, g.pool, g.handles,
                                     Append(names, name))

\* SessionManager._build_runtime_state: on success the runtime table holds
\* the new state; on an exception only the handles made so far remain.
build_runtime_state(reg, rts, pl, hs, id, db_session) ==
  LET b == build_loop(reg, db_session, id, 1, pl, hs, <<>>)
  IN IF b.ok
     THEN [ok |-> TRUE, pool |-> b.pool, handles |-> b.handles,
           runtimes |-> Put(rts, id, RuntimeSessionState(DictKeys(b.names)))]
     ELSE [ok |-> FALSE, exc |-> b.exc, pool |-> b.pool, handles |-> b.handles,
           runtimes |-> rts]

\* SessionManager.ensure_session_exists: TRUE when the store has the row,
\* FALSE when the code raises KeyError.
ensure_session_exists_any(st, session_id) == TRUE
ensure_session_exists(st, session_id) == session_id \in DOMAIN st

\* SessionManager.get_runtime_state
get_runtime_state(reg, st, rts, pl, hs, id) ==
  IF id \in DOMAIN rts
  THEN [ok |-> TRUE, pool |-> pl, handles |-> hs, runtimes |-> rts]
  ELSE IF id \notin DOMAIN st
       THEN [ok |-> FALSE, exc |-> "KeyError", pool |-> pl, handles |-> hs, runtimes |-> rts]
       ELSE build_runtime_state(reg, rts, pl, hs, id, st[id])

\* The body of the validation loop of create_session for one name.
validate_name_known(reg, name) ==
  IF name \notin DOMAIN reg THEN Raise("ValueError") ELSE [ok |-> TRUE]
validate_name(reg, name) ==
  IF name \notin DOMAIN reg THEN Raise("ValueError")
  ELSE IF lower(reg[name].protocol) # "http" THEN Raise("ValueError")
  ELSE [ok |-> TRUE]

\* The validation loop of create_session from name i on.
RECURSIVE validate(_, _, _)
validate(reg, servers, i) ==
  IF i > Len(servers) THEN [ok |-> TRUE]
  ELSE LET v == validate_name(reg, servers[i])
       IN IF ~v.ok THEN v ELSE validate(reg, servers, i + 1)

\* SessionManager._persist_session: the new row.
persist_session(reg, servers, credentials, state) ==
  [servers |-> [i \in 1..Len(servers) |->
                  [name |-> reg[servers[i]].name,
                   protocol |-> reg[servers[i]].protocol,
                   auth_type |-> reg[servers[i]].auth_type,
                   api_key_header_name |-> reg[servers[i]].api_key_header_name]],
   credentials |-> credentials,
   state |-> state]

\* SessionManager._update_state
update_state_kept(st, id, state) == st
update_state(st, id, state) ==
  IF id \notin DOMAIN st THEN st ELSE [st EXCEPT ![id].state = state]

\* The except branch of load_persisted_sessions: the failure is logged and
\* the store is left as it is.
restore_failed_marked(st, id) == update_state(st, id, "failed")
restore_failed(st, id) == st

\* The loop of load_persisted_sessions from row i on.
RECURSIVE load_loop(_, _, _, _, _, _)
RECURSIVE load_loop_aborting(_, _, _, _, _, _)
load_loop_aborting(reg, st, i, rts, pl, hs) ==
  IF i > Len(st) THEN [store |-> st, runtimes |-> rts, pool |-> pl, handles |-> hs]
  ELSE IF st[i].state # "ready" THEN load_loop_aborting(reg, st, i + 1, rts, pl, hs)
  ELSE LET b == build_runtime_state(reg, rts, pl, hs, i, st[i])
       IN IF b.ok THEN load_loop_aborting(reg, st, i + 1, b.runtimes, b.pool, b.handles)
          ELSE [store |-> st, runtimes |-> b.runtimes, pool |-> b.pool,
                handles |-> b.handles]
load_loop(reg, st, i, rts, pl, hs) ==
  IF i > Len(st) THEN [store |-> st, runtimes |-> rts, pool |-> pl, handles |-> hs]
  ELSE IF st[i].state # "ready" THEN load_loop(reg, st, i + 1, rts, pl, hs)
  ELSE LET b == build_runtime_state(reg, rts, pl, hs, i, st[i])
       IN load_loop(reg, IF b.ok THEN st ELSE restore_failed(st, i), i + 1,
                    b.runtimes, b.pool, b.handles)

(***************************************************************************)
(* Upstream providers: what one handle.post can end in.  A response body   *)
(* is a sequence of lines; a line is the prefix it starts with and the     *)
(* JSON value the rest of it decodes to, or NotJson.                       *)
(***************************************************************************)
NotJson == [t |-> "notjson"]
Line(prefix, rest) == [prefix |-> prefix, rest |-> rest]

PlainBody(v) == <<Line("", v)>>                                  \* {...}
SseBody(v) == <<Line("event:", NotJson), Line("data:", v)>>      \* event: message\ndata: {...}
SseNoData == <<Line("event:", NotJson)>>                         \* event: message
Garbage == <<Line("", NotJson)>>                                 \* <html>...

SessionHeader == "mcp-session-id"

Response(status_code, content_type, extra, body) ==
  [kind |-> "response", status_code |-> status_code,
   headers |-> Update(("content-type" :> content_type), extra), body |-> body]
TimeoutException == [kind |-> "TimeoutException"]
RequestError == [kind |-> "RequestError"]
RuntimeError == [kind |-> "RuntimeError"]

\* json.loads
json_loads(text) == IF text = NotJson THEN Raise("ValueError") ELSE [ok |-> TRUE, data |-> text]

\* parse_sse_json_body from line i on
RECURSIVE parse_sse_from(_, _)
parse_sse_from(body, i) ==
  IF i > Len(body) THEN Raise("ValueError")
  ELSE IF body[i].prefix = "data:" THEN json_loads(body[i].rest)
  ELSE parse_sse_from(body, i + 1)

parse_sse_json_body(body) == parse_sse_from(body, 1)

\* httpx.Response.json(): the whole body is one JSON text
resp_json(r) ==
  IF Len(r.body) = 1 /\ r.body[1].prefix = "" THEN json_loads(r.body[1].rest)
  ELSE Raise("ValueError")

\* resp.headers.get("content-type", "").startswith("text/event-stream")
is_event_stream(r) ==
  /\ "content-type" \in DOMAIN r.headers
  /\ r.headers["content-type"] \in {"text/event-stream", "text/event-stream; charset=utf-8"}

\* the SSE-or-JSON decoding rule
decode(r) == IF is_event_stream(r) THEN parse_sse_json_body(r.body) ELSE resp_json(r)

\* httpx.Response.raise_for_status() raises
is_error_status(r) == ~(200 <= r.status_code /\ r.status_code <= 299)

\* BackendHandle.post: RuntimeError on a closed handle, else what the
\* upstream does (after the retries).
post(handle, upstream) == IF handle.closed THEN RuntimeError ELSE upstream

(***************************************************************************)
(* utils.retries and the sends of one BackendHandle.post.  An operation is *)
(* the sequence of the outcomes of its successive invocations (the last    *)
(* one repeats); an outcome is a value or an exception, and an exception   *)
(* is an instance of its class and of the bases of its class.              *)
(***************************************************************************)
ConnectError == [kind |-> "ConnectError"]
TypeError == [kind |-> "TypeError"]

\* The classes an exception of class cls is an instance of.
Mro(cls) ==
  CASE cls = "ConnectError" ->
         {"ConnectError", "NetworkError", "TransportError", "RequestError", "HTTPError",
          "Exception"}
    [] cls = "TimeoutException" ->
         {"TimeoutException", "TransportError", "RequestError", "HTTPError", "Exception"}
    [] cls = "RequestError" -> {"RequestError", "HTTPError", "Exception"}
    [] OTHER -> {cls, "Exception"}

\* except exc_types: whether outcome o is an exception that the clause catches.
caught(o, exc_types) ==
  /\ o.kind \notin {"ok", "response"}
  /\ Mro(o.kind) \cap exc_types # {}

invoke(func, n) == func[IF n <= Len(func) THEN n ELSE Len(func)]

\* The loop of async_retry: the number of invocations made, the sleeps
\* taken, and the value returned or the exception raised.
RECURSIVE retry_loop(_, _, _, _, _, _)
RECURSIVE retry_loop_extra(_, _, _, _, _, _)
retry_loop_extra(func, retries, exc_types, attempt, delay, sleeps) ==
  LET o == invoke(func, attempt + 1)
  IN IF ~caught(o, exc_types) THEN [calls |-> attempt + 1, sleeps |-> sleeps, outcome |-> o]
     ELSE IF attempt > retries THEN [calls |-> attempt + 1, sleeps |-> sleeps, outcome |-> o]
     ELSE retry_loop_extra(func, retries, exc_types, attempt + 1, delay * 2,
                            Append(sleeps, delay))
retry_loop(func, retries, exc_types, attempt, delay, sleeps) ==
  LET o == invoke(func, attempt + 1)
  IN IF ~caught(o, exc_types) THEN [calls |-> attempt + 1, sleeps |-> sleeps, outcome |-> o]
     ELSE IF attempt >= retries THEN [calls |-> attempt + 1, sleeps |-> sleeps, outcome |-> o]
     ELSE retry_loop(func, retries, exc_types, attempt + 1, delay * 2,
                     Append(sleeps, delay))

\* async_retry
async_retry(func, retries, base_delay, exceptions) ==
  retry_loop(func, retries, exceptions, 0, base_delay, <<>>)

\* settings.retry_attempts and settings.retry_backoff_base (in milliseconds)
retry_attempts == 2
retry_backoff_base == 500

\* BackendHandle.post with its sends: func gives the outcome of each
\* self._client.post.
post_sends(handle, func) ==
  IF handle.closed THEN [calls |-> 0, sleeps |-> <<>>, outcome |-> RuntimeError]
  ELSE async_retry(func, retry_attempts, retry_backoff_base, {"RequestError"})

(***************************************************************************)
(* MCPMultiplexer.                                                         *)
(***************************************************************************)
\* call_provider of initialize on the outcome o of handle.post: the tuple
\* (provider, payload, error, resp), or the exception that escapes it.
call_provider_initialize(provider, o) ==
  IF o.kind = "RuntimeError" THEN Raise("RuntimeError")
  ELSE IF o.kind \in {"TimeoutException", "RequestError"}
  THEN [ok |-> TRUE, provider |-> provider, payload |-> None, error |-> JStr("HTTPError"),
        resp |-> None]
  ELSE LET data == decode(o)
       IN IF ~data.ok
          THEN [ok |-> TRUE, provider |-> provider, payload |-> None,
                error |-> JStr("ValueError"), resp |-> o]
          ELSE IF is_error_status(o)
          THEN [ok |-> TRUE, provider |-> provider, payload |-> None,
                error |-> JStr("HTTPError"), resp |-> o]
          ELSE [ok |-> TRUE, provider |-> provider, payload |-> data.data, error |-> None,
                resp |-> o]

\* call_provider of list_tools: the tuple (provider, payload, error).
call_provider_list_tools(provider, o) ==
  IF o.kind = "RuntimeError" THEN Raise("RuntimeError")
  ELSE IF o.kind \in {"TimeoutException", "RequestError"}
  THEN [ok |-> TRUE, provider |-> provider, payload |-> None, error |-> JStr("HTTPError")]
  ELSE LET data == decode(o)
       IN IF ~data.ok
          THEN [ok |-> TRUE, provider |-> provider, payload |-> None,
                error |-> JStr("ValueError")]
          ELSE [ok |-> TRUE, provider |-> provider, payload |-> data.data, error |-> None]

\* The loop over the tools of one provider, from tool i on: the merged
\* tools, the tool map and the count, or the exception of a malformed tool.
RECURSIVE tools_loop(_, _, _, _, _, _)
tools_loop(provider, tools, i, combined_tools, tool_map, tool_count) ==
  IF i > Len(tools)
  THEN [ok |-> TRUE, combined_tools |-> combined_tools, tool_map |-> tool_map,
        tool_count |-> tool_count]
  ELSE LET tool == tools[i]
       IN IF ~isdict(tool) THEN Raise("AttributeError")
          ELSE LET name == Get(tool.d, "name")
               IN IF ~truthy(name)
                  THEN tools_loop(provider, tools, i + 1, combined_tools, tool_map, tool_count)
                  ELSE IF name.t # "name" THEN Raise("TypeError")
                  ELSE LET prefixed_name == make_prefixed_tool_name(provider, name.v)
                           new_tool == JObj(Put(tool.d, "name", JName(prefixed_name)))
                       IN tools_loop(provider, tools, i + 1,
                                     Append(combined_tools, new_tool),
                                     Put(tool_map, prefixed_name,
                                         [provider |-> provider, backend_tool_name |-> name.v]),
                                     tool_count + 1)

\* (payload.get("result") or {}).get("tools") or []  and the loop over it
merge_tools(provider, payload, combined_tools, tool_map) ==
  IF ~isdict(payload) THEN Raise("AttributeError")
  ELSE LET result == pyOr(Get(payload.d, "result"), JObj(EmptyDict))
       IN IF ~isdict(result) THEN Raise("AttributeError")
          ELSE LET tools == pyOr(Get(result.d, "tools"), JArr(<<>>))
               IN IF tools.t # "list" THEN Raise("TypeError")
                  ELSE tools_loop(provider, tools.v, 1, combined_tools, tool_map, 0)

\* ErrorInfo without the provider's name.
ErrorInfo_unnamed(provider, error) ==
  [provider |-> <<>>, status |-> "error", message |-> pyStr(error)]

ErrorInfo(provider, error) ==
  [provider |-> provider, status |-> "error", message |-> pyStr(error)]
OkInfo(provider, tool_count) ==
  [provider |-> provider, status |-> "ok", tool_count |-> tool_count]

\* The headers of a response that persist_response_headers names.
session_headers_of(provider_cfg, r) ==
  LET wanted == {lower(h) : h \in Range(provider_cfg.persist_response_headers)}
  IN [k \in {x \in DOMAIN r.headers : lower(x) \in wanted} |-> r.headers[k]]

\* The merge loop of initialize from result i on.  acc holds combined_tools,
\* tool_map, server_info, base_result and the two things the loop writes as
\* it goes: provider_session_headers and the handles' headers.
RECURSIVE initialize_loop(_, _, _, _, _)
initialize_loop(reg, session_id, results, i, acc) ==
  IF i > Len(results) THEN acc
  ELSE LET r == results[i]
       IN IF truthy(r.error) \/ ~truthy(r.payload)
          THEN With([acc EXCEPT !.server_info = Append(@, ErrorInfo(r.provider, r.error))],
                    LAMBDA a : initialize_loop(reg, session_id, results, i + 1, a))
          ELSE IF r.provider \notin DOMAIN reg THEN [acc EXCEPT !.ok = FALSE, !.exc = "KeyError"]
          ELSE
            LET session_headers ==
                  IF r.resp = None THEN EmptyDict ELSE session_headers_of(reg[r.provider], r.resp)
                captured ==
                  IF DOMAIN session_headers = {} THEN acc
                  ELSE [acc EXCEPT
                          !.provider_session_headers =
                             Put(@, r.provider,
                                 Update(IF r.provider \in DOMAIN @ THEN @[r.provider]
                                        ELSE EmptyDict, session_headers)),
                          !.handles = update_headers(@, <<session_id, r.provider>>,
                                                     session_headers)]
            IN With(captured, LAMBDA acc1 :
                 LET base_result ==
                       IF /\ ~truthy(acc1.base_result)
                          /\ isdict(r.payload)
                          /\ "result" \in DOMAIN r.payload.d
                          /\ isdict(r.payload.d["result"])
                       THEN r.payload.d["result"]
                       ELSE acc1.base_result
                 IN With(merge_tools(r.provider, r.payload, acc1.combined_tools,
                                     acc1.tool_map), LAMBDA m :
                      IF ~m.ok THEN [acc1 EXCEPT !.ok = FALSE, !.exc = m.exc]
                      ELSE With([acc1 EXCEPT
                                   !.base_result = base_result,
                                   !.combined_tools = m.combined_tools,
                                   !.tool_map = m.tool_map,
                                   !.server_info = Append(@, OkInfo(r.provider, m.tool_count))],
                                LAMBDA a : initialize_loop(reg, session_id, results, i + 1, a))))

\* The merge loop of list_tools from result i on.
RECURSIVE list_tools_loop(_, _, _)
list_tools_loop(results, i, acc) ==
  IF i > Len(results) THEN acc
  ELSE LET r == results[i]
       IN IF truthy(r.error) \/ ~truthy(r.payload)
          THEN With([acc EXCEPT !.server_info = Append(@, ErrorInfo(r.provider, r.error))],
                    LAMBDA a : list_tools_loop(results, i + 1, a))
          ELSE With(merge_tools(r.provider, r.payload, acc.combined_tools, acc.tool_map),
                    LAMBDA m :
                 IF ~m.ok THEN [acc EXCEPT !.ok = FALSE, !.exc = m.exc]
                 ELSE With([acc EXCEPT
                              !.combined_tools = m.combined_tools,
                              !.tool_map = m.tool_map,
                              !.server_info = Append(@, OkInfo(r.provider, m.tool_count))],
                           LAMBDA a : list_tools_loop(results, i + 1, a)))

\* update_tool_map adding to the map that is there.
update_tool_map_merging(rts, session_id, tool_map) ==
  IF session_id \notin DOMAIN rts THEN rts
  ELSE [rts EXCEPT ![session_id].tool_name_map = Update(@, tool_map)]

\* update_tool_map without its effect.
update_tool_map_dropped(rts, session_id, tool_map) == rts

\* SessionManager.update_tool_map
update_tool_map(rts, session_id, tool_map) ==
  IF session_id \notin DOMAIN rts THEN rts
  ELSE [rts EXCEPT ![session_id].tool_name_map = tool_map]

\* SessionManager.get_tool_mapping
get_tool_mapping(rts, session_id) ==
  IF session_id \in DOMAIN rts THEN rts[session_id].tool_name_map ELSE EmptyDict

CACHE_TTL_SECONDS == 600

\* The state of the process and of the store, as one record.
State ==
  [registry |-> registry, store |-> store, runtimes |-> runtimes, pool |-> pool,
   handles |-> handles, idmap |-> idmap, nextId |-> nextId, now |-> now]

Return(S, value, requests) == [S |-> S, kind |-> "return", value |-> value, sent |-> requests]
Raised(S, exc, requests) == [S |-> S, kind |-> "raise", exc |-> exc, sent |-> requests]

\* An upstream request as the provider receives it, with the response it got.
Request(session_id, provider, handle, body, o) ==
  [session |-> session_id, provider |-> provider, headers |-> handle.headers,
   body |-> body, reply |-> o]

\* call_provider writing the headers it captured as soon as its reply is in.
call_provider_done_persisting(S, session_id, provider, o) ==
  IF o.kind # "response" THEN S
  ELSE LET session_headers == session_headers_of(S.registry[provider], o)
       IN IF DOMAIN session_headers = {} THEN S
          ELSE [S EXCEPT !.runtimes[session_id].provider_session_headers =
                           Put(@, provider, session_headers)]

\* What the completion of one call_provider leaves in the process: the
\* coroutine returns its tuple to gather and writes nothing.
call_provider_done(S, session_id, provider, o) == S

\* The fan-out of initialize and list_tools: one post per connection.
fan_out(S, session_id, connections, request_body, up) ==
  [i \in 1..Len(connections) |->
     post(S.handles[<<session_id, connections[i]>>], up.reply[connections[i]])]

fan_out_requests(S, session_id, connections, request_body, outs) ==
  {Request(session_id, connections[i], S.handles[<<session_id, connections[i]>>],
           request_body, outs[i]) :
     i \in {j \in 1..Len(connections) : outs[j].kind # "RuntimeError"}}

\* The calls of a fan-out in the order in which they complete: the replies
\* arrive in the order up.arrival of their providers.
as_completed(calls, connections, arrival) ==
  LET rank(p) == CHOOSE k \in 1..Len(arrival) : arrival[k] = p
      order == SortSeq([i \in 1..Len(calls) |-> i],
                       LAMBDA i, j : rank(connections[i]) < rank(connections[j]))
  IN [k \in 1..Len(order) |-> [task |-> order[k], result |-> calls[order[k]]]]

\* The results in the order in which the calls completed.
gather_as_completed(done) == [k \in 1..Len(done) |-> done[k].result]

\* asyncio.gather: the results in the order of the tasks it was given.
gather(done) ==
  [i \in 1..Len(done) |-> done[CHOOSE k \in 1..Len(done) : done[k].task = i].result]

\* The session's runtime state looked up (and rebuilt when the table does not
\* hold it): the outcome of get_runtime_state and the state S after it.
Lookup(S0, session_id) ==
  With(get_runtime_state(S0.registry, S0.store, S0.runtimes, S0.pool, S0.handles,
                         session_id),
       LAMBDA g : [ok |-> g.ok, exc |-> IF g.ok THEN "" ELSE g.exc,
                   S |-> [S0 EXCEPT !.runtimes = g.runtimes, !.pool = g.pool,
                                    !.handles = g.handles]])

\* MCPMultiplexer.initialize
initialize(S0, session_id, initialize_request, up) ==
  With(Lookup(S0, session_id), LAMBDA g :
    IF ~g.ok THEN Raised(g.S, g.exc, {})
    ELSE
      LET S == g.S
          runtime == S.runtimes[session_id]
          connections == runtime.connections
      IN With(fan_out(S, session_id, connections, initialize_request, up), LAMBDA outs :
           LET requests ==
                 fan_out_requests(S, session_id, connections, initialize_request, outs)
               tasks_ == [i \in 1..Len(connections) |->
                            call_provider_initialize(connections[i], outs[i])]
               results == gather(as_completed(tasks_, connections, up.arrival))
           IN IF \E i \in 1..Len(connections) : outs[i].kind = "RuntimeError"
              THEN Raised(S, "RuntimeError", requests)
              ELSE
                With(initialize_loop(S.registry, session_id, results, 1,
                       [ok |-> TRUE, exc |-> "", combined_tools |-> <<>>,
                        tool_map |-> EmptyDict, server_info |-> <<>>,
                        base_result |-> JObj(EmptyDict),
                        provider_session_headers |-> runtime.provider_session_headers,
                        handles |-> S.handles]), LAMBDA acc :
                  LET S1 == [S EXCEPT !.handles = acc.handles,
                                      !.runtimes[session_id].provider_session_headers =
                                         acc.provider_session_headers]
                  IN IF ~acc.ok THEN Raised(S1, acc.exc, requests)
                     ELSE
                       LET base_result ==
                             JObj(Put(Put(acc.base_result.d, "tools", JArr(acc.combined_tools)),
                                      "server_info", JArr(acc.server_info)))
                           S2 == [S1 EXCEPT !.runtimes =
                                    update_tool_map(@, session_id, acc.tool_map)]
                       IN Return(S2, base_result, requests))))

frozenset(xs) == [t |-> "frozenset", v |-> xs]
float(n) == [t |-> "float", v |-> n]

\* A cache that is never served.
cache_never_valid(runtime, current_providers, now_) == FALSE

\* The test of list_tools that serves the cache.
cache_is_valid(runtime, current_providers, now_) ==
  /\ runtime.cached_tools # None
  /\ runtime.cached_tools_ts # None
  /\ runtime.cached_tools_providers = current_providers
  /\ (now_ - runtime.cached_tools_ts.v) < CACHE_TTL_SECONDS

\* MCPMultiplexer.list_tools
list_tools(S0, session_id, request_body, up) ==
  With(Lookup(S0, session_id), LAMBDA g :
    IF ~g.ok THEN Raised(g.S, g.exc, {})
    ELSE
      LET S == g.S
          runtime == S.runtimes[session_id]
          connections == runtime.connections
          current_providers == frozenset(Range(connections))
      IN IF cache_is_valid(runtime, current_providers, S.now)
         THEN LET cached == runtime.cached_tools
                  S1 == [S EXCEPT !.runtimes = update_tool_map(@, session_id, cached.tool_map)]
              IN Return(S1, cached.result, {})
         ELSE
           With(fan_out(S, session_id, connections, request_body, up), LAMBDA outs :
             LET requests == fan_out_requests(S, session_id, connections, request_body, outs)
                 tasks_ == [i \in 1..Len(connections) |->
                              call_provider_list_tools(connections[i], outs[i])]
                 results == gather(as_completed(tasks_, connections, up.arrival))
             IN IF \E i \in 1..Len(connections) : outs[i].kind = "RuntimeError"
                THEN Raised(S, "RuntimeError", requests)
                ELSE
                  With(list_tools_loop(results, 1,
                         [ok |-> TRUE, exc |-> "", combined_tools |-> <<>>,
                          tool_map |-> EmptyDict, server_info |-> <<>>]), LAMBDA acc :
                    IF ~acc.ok THEN Raised(S, acc.exc, requests)
                    ELSE
                      LET result == JObj(("tools" :> JArr(acc.combined_tools)) @@
                                         ("server_info" :> JArr(acc.server_info)))
                          S1 == [S EXCEPT !.runtimes =
                                   update_tool_map(@, session_id, acc.tool_map)]
                          S2 == [S1 EXCEPT
                                   !.runtimes[session_id].cached_tools =
                                      [t |-> "cache", result |-> result,
                                       tool_map |-> acc.tool_map],
                                   !.runtimes[session_id].cached_tools_ts = float(S.now),
                                   !.runtimes[session_id].cached_tools_providers =
                                      current_providers]
                      IN Return(S2, result, requests))))

(***************************************************************************)
(* IdMapper.                                                               *)
(***************************************************************************)
\* str(uuid4()): the n-th identifier drawn, different from all before.
uuid4(n) == JStr("u" \o ToString(n))

\* str(session_id): the text of a UUID, which has a fixed length and no
\* colon; here one character.
str_uuid(session_id) == <<ToString(session_id)>>

\* IdMapper._key: f"{session_id}:{provider}"
key_provider_only(session_id, provider) == <<":">> \o provider
key_session_only(session_id, provider) == str_uuid(session_id) \o <<":">>
key_(session_id, provider) == str_uuid(session_id) \o <<":">> \o provider

\* IdMapper.register: the map after the call (the backend id is uuid4(n)).
register(idm, n, session_id, provider, client_id) ==
  LET key == key_(session_id, provider)
      old == IF key \in DOMAIN idm THEN idm[key] ELSE EmptyDict
  IN Put(idm, key, Put(old, uuid4(n).v, client_id))

\* IdMapper.resolve_backend
resolve_backend(idm, session_id, provider, backend_id) ==
  LET key == key_(session_id, provider)
  IN IF key \in DOMAIN idm THEN Get(idm[key], pyStr(backend_id)) ELSE None

(***************************************************************************)
(* ProtocolHandler.                                                        *)
(***************************************************************************)
\* dict.get(k, default)
GetOr(m, k, default) == IF k \in DOMAIN m THEN m[k] ELSE default

\* ProtocolHandler._jsonrpc_error
jsonrpc_error_noid(request_body, code) ==
  ("jsonrpc" :> GetOr(request_body, "jsonrpc", JStr("2.0"))) @@
  ("id" :> None) @@
  ("error" :> [t |-> "error", code |-> code])
jsonrpc_error(request_body, code) ==
  ("jsonrpc" :> GetOr(request_body, "jsonrpc", JStr("2.0"))) @@
  ("id" :> Get(request_body, "id")) @@
  ("error" :> [t |-> "error", code |-> code])

\* ProtocolHandler._handle_initialize
handle_initialize(S, session_id, body, up) ==
  With(initialize(S, session_id, JObj(body), up), LAMBDA r :
    IF r.kind = "raise" THEN r
    ELSE Return(r.S, ("jsonrpc" :> GetOr(body, "jsonrpc", JStr("2.0"))) @@
                     ("id" :> Get(body, "id")) @@
                     ("result" :> r.value), r.sent))

\* ProtocolHandler._handle_tools_list
handle_tools_list(S, session_id, body, up) ==
  With(list_tools(S, session_id, JObj(body), up), LAMBDA r :
    IF r.kind = "raise" THEN r
    ELSE Return(r.S, ("jsonrpc" :> GetOr(body, "jsonrpc", JStr("2.0"))) @@
                     ("id" :> Get(body, "id")) @@
                     ("result" :> r.value), r.sent))

\* forward_outcome with the except clauses in another order: RequestError
\* (which TimeoutException derives from) first.
forward_outcome_transport_first(o) ==
  IF o.kind = "RuntimeError" THEN Raise("RuntimeError")
  ELSE IF o.kind \in {"TimeoutException", "RequestError"} THEN [ok |-> TRUE, code |-> -32003]
  ELSE IF is_error_status(o) THEN [ok |-> TRUE, code |-> -32003]
  ELSE LET data == decode(o)
       IN IF ~data.ok THEN [ok |-> TRUE, code |-> -32004]
          ELSE IF ~isdict(data.data) THEN [ok |-> TRUE, code |-> -32603]
          ELSE [ok |-> TRUE, code |-> 0, backend_payload |-> data.data]

\* The try block of _handle_tools_call on the outcome o of handle.post:
\* the decoded payload, or the code of the JSON-RPC error returned, or the
\* exception that no except clause catches.
forward_outcome(o) ==
  IF o.kind = "RuntimeError" THEN Raise("RuntimeError")
  ELSE IF o.kind = "TimeoutException" THEN [ok |-> TRUE, code |-> -32002]
  ELSE IF o.kind = "RequestError" THEN [ok |-> TRUE, code |-> -32003]
  ELSE IF is_error_status(o) THEN [ok |-> TRUE, code |-> -32003]
  ELSE LET data == decode(o)
       IN IF ~data.ok THEN [ok |-> TRUE, code |-> -32004]
          ELSE IF ~isdict(data.data) THEN [ok |-> TRUE, code |-> -32603]
          ELSE [ok |-> TRUE, code |-> 0, backend_payload |-> data.data]

\* The forwarded body built in the client's own body object.
forward_aliasing(body, params, backend_tool_name, backend_id) ==
  LET forward_params == Put(params.d, "name", JName(backend_tool_name))
      forward_body == Put(Put(body, "params", JObj(forward_params)), "id", backend_id)
  IN [forward_body |-> forward_body, body |-> forward_body]

\* The statements of _handle_tools_call that prepare the forwarded body:
\* forward_body = dict(body), forward_params = dict(params) and the two
\* assignments; the forwarded body and the client's body after them.
forward(body, params, backend_tool_name, backend_id) ==
  LET forward_params == Put(params.d, "name", JName(backend_tool_name))
      forward_body == Put(Put(body, "params", JObj(forward_params)), "id", backend_id)
  IN [forward_body |-> forward_body, body |-> body]

\* ProtocolHandler._handle_tools_call; reply gives the upstream's outcome
\* for the backend id the request is forwarded with.
handle_tools_call(S0, session_id, body, reply) ==
  LET params == pyOr(Get(body, "params"), JObj(EmptyDict))
  IN IF ~isdict(params) THEN Raised(S0, "AttributeError", {})
     ELSE
       LET tool_name == Get(params.d, "name")
       IN IF ~truthy(tool_name) THEN Return(S0, jsonrpc_error(body, -32602), {})
          ELSE
            LET tool_map == get_tool_mapping(S0.runtimes, session_id)
                tool_info == IF tool_name.t = "name" THEN Get(tool_map, tool_name.v) ELSE None
            IN IF tool_info = None THEN Return(S0, jsonrpc_error(body, -32602), {})
               ELSE
                 LET provider == tool_info.provider
                     backend_tool_name == tool_info.backend_tool_name
                 IN With(Lookup(S0, session_id), LAMBDA g :
                      IF ~g.ok THEN Raised(g.S, g.exc, {})
                      ELSE IF provider \notin Range(g.S.runtimes[session_id].connections)
                      THEN Return(g.S, jsonrpc_error(body, -32001), {})
                      ELSE
                        LET S == g.S
                            handle == S.handles[<<session_id, provider>>]
                            client_id == Get(body, "id")
                            backend_id == uuid4(S.nextId + 1)
                            S1 == [S EXCEPT !.idmap = register(@, S.nextId + 1, session_id,
                                                               provider, client_id),
                                            !.nextId = @ + 1]
                            fw == forward(body, params, backend_tool_name, backend_id)
                            forward_body == fw.forward_body
                            o == post(handle, reply)
                            requests == IF o.kind = "RuntimeError" THEN {}
                                        ELSE {Request(session_id, provider, handle,
                                                      JObj(forward_body), o)}
                        IN With(forward_outcome(o), LAMBDA f :
                             IF ~f.ok THEN Raised(S1, f.exc, requests)
                             ELSE IF f.code # 0
                             THEN [client_body |-> fw.body]
                                  @@ Return(S1, jsonrpc_error(fw.body, f.code), requests)
                             ELSE
                               LET backend_payload == f.backend_payload.d
                                   backend_resp_id == Get(backend_payload, "id")
                                   orig_client_id ==
                                     pyOr(resolve_backend(S1.idmap, session_id, provider,
                                                          backend_resp_id), client_id)
                                   p1 == Put(backend_payload, "id", orig_client_id)
                                   p2 == IF "jsonrpc" \notin DOMAIN p1
                                         THEN Put(p1, "jsonrpc", JStr("2.0")) ELSE p1
                               IN [client_body |-> fw.body] @@ Return(S1, p2, requests)))

\* The method dispatch of ProtocolHandler.handle_request; up gives each
\* provider's outcome for a fan-out and reply the outcome of a forwarded
\* tools/call.
dispatch(S, session_id, body, method, up, reply) ==
  IF method = JStr("initialize") THEN handle_initialize(S, session_id, body, up)
  ELSE IF method = JStr("tools/list") THEN handle_tools_list(S, session_id, body, up)
  ELSE IF method = JStr("tools/call") THEN handle_tools_call(S, session_id, body, reply)
  ELSE Return(S, jsonrpc_error(body, -32601), {})

\* ProtocolHandler.handle_request
handle_request(S, session_id, body, up, reply) ==
  IF ~ensure_session_exists(S.store, session_id)
  THEN Return(S, jsonrpc_error(body, -32000), {})
  ELSE LET method == Get(body, "method")
       IN IF ~truthy(method) THEN Return(S, jsonrpc_error(body, -32600), {})
          ELSE dispatch(S, session_id, body, method, up, reply)

\* SessionManager.create_session: id is the new row's id, 0 when no row
\* was written.
create_session(S, servers, credentials) ==
  LET v == validate(S.registry, servers, 1)
  IN IF ~v.ok THEN [ok |-> FALSE, exc |-> v.exc, id |-> 0, S |-> S]
     ELSE LET db_session == persist_session(S.registry, servers, credentials, "ready")
              id == Len(S.store) + 1
              st == Append(S.store, db_session)
          IN With(build_runtime_state(S.registry, S.runtimes, S.pool, S.handles, id,
                                      db_session),
                  LAMBDA b :
                    [ok |-> b.ok, exc |-> IF b.ok THEN "" ELSE b.exc, id |-> id,
                     S |-> [S EXCEPT !.store = IF b.ok THEN st
                                               ELSE update_state(st, id, "failed"),
                                     !.runtimes = b.runtimes,
                                     !.pool = b.pool,
                                     !.handles = b.handles]])

(***************************************************************************)
(* The inputs of the model: what clients send and what upstreams answer.   *)
(***************************************************************************)
ClockStep == CACHE_TTL_SECONDS \div 2
TickSteps == {ClockStep, 2 * ClockStep}

\* The server lists and the credentials given to create_session.
ServerLists == {<<PA, PB>>, <<PA, PA>>, <<PA, PZ>>, <<PA, PW>>}
CredentialBags == {EmptyDict, (PB :> ("token" :> JStr("t1")))}

\* The jsonrpc and id members of a request.
Envelopes == {<<Absent, JInt("7")>>, <<JStr("1.0"), JStr("a")>>, <<JStr("2.0"), None>>}
FanoutEnvelopes == {<<JStr("2.0"), JInt("7")>>}
ErrorEnvelopes == {<<Absent, JInt("7")>>, <<JStr("1.0"), None>>}

Bodies(envelopes, method, params) ==
  {Dict([jsonrpc |-> e[1], id |-> e[2], method |-> method, params |-> params]) :
     e \in envelopes}

\* The tools of the upstream providers.
TP == <<"p">>
TXDot == <<"x", ".">>
TXUnd == <<"x", "_">>
TQ == <<"q">>

Tool(provider, name) ==
  JObj(("name" :> JName(name)) @@
       ("description" :> [t |-> "description", provider |-> provider, name |-> name]))
Nameless(provider) ==
  JObj(("description" :> [t |-> "description", provider |-> provider, name |-> <<>>]))

ListPayload(provider, tools) ==
  JObj(("jsonrpc" :> JStr("2.0")) @@
       ("result" :> JObj(("protocolVersion" :> JName(provider)) @@ ("tools" :> JArr(tools)))))

NoHeaders == EmptyDict
S1 == (SessionHeader :> "s1")
S2 == (SessionHeader :> "s2") @@ ("date" :> "d")

\* What a provider can answer to a fanned-out initialize or tools/list.
FanoutReplies(provider) ==
  IF provider = PA
  THEN {RequestError,
        Response(200, "text/event-stream", NoHeaders, SseNoData),
        Response(200, "application/json", NoHeaders, PlainBody(JArr(<<None>>))),
        Response(200, "application/json", NoHeaders, PlainBody(None)),
        Response(503, "application/json", NoHeaders, Garbage),
        Response(200, "application/json", NoHeaders,
                 PlainBody(ListPayload(PA, <<Nameless(PA), Tool(PA, TP)>>))),
        Response(200, "application/json", S1,
                 PlainBody(ListPayload(PA, <<Tool(PA, TXDot), Tool(PA, TXUnd)>>))),
        Response(200, "text/event-stream", S2,
                 SseBody(ListPayload(PA, <<Tool(PA, TP)>>))),
        Response(503, "application/json", S1,
                 PlainBody(ListPayload(PA, <<Tool(PA, TP)>>)))}
  ELSE {TimeoutException,
        Response(200, "application/json", NoHeaders,
                 PlainBody(ListPayload(provider, <<Tool(provider, TP)>>)))}

UpProviders == {PA, PB}
\* What the upstream does during one request: the reply of each provider, and
\* the order in which the replies of concurrent calls arrive.
UpsArriving(arrivals) ==
  {[reply |-> (PA :> a) @@ (PB :> b), arrival |-> arrival] :
     a \in FanoutReplies(PA), b \in FanoutReplies(PB), arrival \in arrivals}
Ups == UpsArriving({<<PB, PA>>})
NoUps == [reply |-> (PA :> RequestError) @@ (PB :> RequestError), arrival |-> <<PA, PB>>]

\* What a provider can answer to a forwarded tools/call, given the backend
\* ids it has received so far (the latest is backend id n).
CallPayload(jsonrpc, id) ==
  JObj(Dict([jsonrpc |-> jsonrpc, id |-> id, result |-> JObj(("content" :> JStr("ok")))]))

CallReplies(n) ==
  {TimeoutException, RequestError,
   Response(200, "text/event-stream", NoHeaders, SseNoData),
   Response(200, "application/json", NoHeaders, PlainBody(JArr(<<None>>))),
   Response(200, "application/json", NoHeaders, Garbage),
   Response(503, "application/json", NoHeaders, Garbage),
   Response(200, "application/json", S1, PlainBody(CallPayload(Absent, uuid4(n)))),
   Response(200, "text/event-stream", NoHeaders, SseBody(CallPayload(JStr("2.0"), uuid4(n)))),
   Response(200, "application/json", NoHeaders, PlainBody(CallPayload(JStr("1.0"), None)))}
  \cup {Response(200, "application/json", NoHeaders, PlainBody(CallPayload(JStr("2.0"), uuid4(k)))) :
          k \in 1..(n - 1)}
NoReply == RequestError

\* The params of a tools/call request on a session.
UnknownTool == make_prefixed_tool_name(PZ, TQ)
NamedParams(names) ==
  {JObj(("name" :> JName(n)) @@ ("arguments" :> JObj(EmptyDict))) : n \in names}
BadParams ==
  {Absent, JArr(<<None>>), JObj(("arguments" :> JObj(EmptyDict)))}
  \cup NamedParams({UnknownTool, <<>>})

\* The method members that name no supported method.
OtherMethods == {Absent, JStr(""), JStr("ping"), JInt("5"), JObj(("a" :> None))}

\* The requests sent to a session id that has no record.
UnknownBodies ==
  Bodies(ErrorEnvelopes, Absent, Absent)
  \cup Bodies({<<JStr("2.0"), JInt("7")>>}, JStr("initialize"), Absent)
  \cup Bodies({<<JStr("2.0"), JInt("7")>>}, JStr("tools/list"), Absent)
  \cup Bodies({<<Absent, JStr("a")>>}, JStr("ping"), Absent)
  \cup UNION {Bodies({<<JStr("2.0"), None>>}, JStr("tools/call"), params) :
                params \in NamedParams({UnknownTool})}

(***************************************************************************)
(* Observations kept for the properties: seen[key] records, for each       *)
(* header that the provider's persist_response_headers names, the value    *)
(* in the latest upstream response of the provider that carried it.        *)
(***************************************************************************)
SeenAt(sn, key) == IF key \in DOMAIN sn THEN sn[key] ELSE EmptyDict

\* The persisted headers that the response to request r carried.
Carried(reg, r) ==
  IF r.reply.kind # "response" \/ r.provider \notin DOMAIN reg THEN EmptyDict
  ELSE session_headers_of(reg[r.provider], r.reply)

SeenAfter(sn, reg, requests) ==
  LET keys == (DOMAIN sn) \cup {<<r.session, r.provider>> : r \in requests}
  IN [k \in keys |->
        IF \E r \in requests : <<r.session, r.provider>> = k
        THEN LET r == CHOOSE x \in requests : <<x.session, x.provider>> = k
             IN Update(SeenAt(sn, k), Carried(reg, r))
        ELSE sn[k]]

\* The requests sent in a step, each with what was seen before it was sent.
Observed(sn, requests) ==
  {[session |-> r.session, provider |-> r.provider, headers |-> r.headers,
    body |-> r.body, reply |-> r.reply,
    due |-> SeenAt(sn, <<r.session, r.provider>>)] : r \in requests}

(***************************************************************************)
(* The actions.                                                            *)
(***************************************************************************)
Init ==
  /\ registry = FullRegistry
  /\ store = <<>>
  /\ runtimes = EmptyDict
  /\ pool = {}
  /\ handles = EmptyDict
  /\ idmap = EmptyDict
  /\ nextId = 0
  /\ now = 0
  /\ resp = [op |-> "none"]
  /\ sent = {}
  /\ seen = EmptyDict
  /\ known = EmptyDict
  /\ inits = EmptyDict
  /\ tasks = <<>>
  /\ lock = FreeLock
  /\ ops = 0
  /\ restarts = 0
  /\ running = TRUE

\* The tables of the process that differ between two of its states.
Changed(S, T) == {c \in DOMAIN S : S[c] # T[c]}

\* POST /create-session: SessionManager.create_session behind the controller,
\* which answers 201, or 400 to a ValueError.
CreateSession ==
  \E servers \in ServerLists, credentials \in CredentialBags :
    /\ running
    /\ Len(store) < MaxSessions
    /\ ops = 0
    /\ \E out \in {create_session(State, servers, credentials)} :
       /\ store' = out.S.store
       /\ runtimes' = out.S.runtimes
       /\ pool' = out.S.pool
       /\ handles' = out.S.handles
       /\ resp' = [op |-> "create_session", servers |-> servers,
                   credentials |-> credentials,
                   status |-> IF out.ok THEN 201
                              ELSE IF out.exc = "ValueError" THEN 400 ELSE 500,
                   session |-> out.id,
                   changed |-> Changed(State, out.S)]
    /\ sent' = {}
    /\ UNCHANGED <<registry, idmap, nextId, now, seen, known, inits, tasks, lock, ops, restarts, running>>

\* The upstream content that a fan-out on the session meets: the reply of each
\* of the session's providers.
Replies(S, session_id, up) ==
  LET connections == Range(S.runtimes[session_id].connections)
  IN [p \in connections \cap DOMAIN up.reply |-> up.reply[p]]

\* The providers that replied to the fan-out of the request, in the order in
\* which their replies arrived.
Arrived(out, up) ==
  SelectSeq(up.arrival, LAMBDA p : \E r \in out.sent : r.provider = p)

\* The request is an initialize that returned a result.
Initialized(body, out) ==
  /\ Get(body, "method") = JStr("initialize")
  /\ out.kind = "return"
  /\ "result" \in DOMAIN out.value

\* What a successful initialize produced: its combined tools and the tool map
\* it installed.
InitRecord(replies, out, session_id) ==
  [replies |-> replies,
   tools |-> out.value["result"].d["tools"].v,
   tool_map |-> get_tool_mapping(out.S.runtimes, session_id)]

\* ProtocolHandler.handle_request from its call to its return, and what the
\* request leaves in the process.
Answer(session_id, body, up, reply) ==
  /\ running
  /\ ops < MaxOps
  /\ \E out \in {handle_request(State, session_id, body, up, reply)} :
     /\ ops' = ops + 1
     /\ runtimes' = out.S.runtimes
     /\ pool' = out.S.pool
     /\ handles' = out.S.handles
     /\ idmap' = out.S.idmap
     /\ nextId' = out.S.nextId
     /\ resp' = [op |-> "handle_request", session |-> session_id, body |-> body,
                 kind |-> out.kind,
                 value |-> IF out.kind = "return" THEN out.value ELSE EmptyDict,
                 exc |-> IF out.kind = "raise" THEN out.exc ELSE "",
                 changed |-> Changed(State, out.S),
                 replies |-> IF Initialized(body, out)
                             THEN Replies(out.S, session_id, up) ELSE EmptyDict,
                 prior |-> IF Initialized(body, out) /\ session_id \in DOMAIN inits
                           THEN inits[session_id] ELSE None,
                 before |-> IF Initialized(body, out)
                            THEN get_tool_mapping(runtimes, session_id) ELSE EmptyDict,
                 arrived |-> Arrived(out, up),
                 body_after |-> IF "client_body" \in DOMAIN out THEN out.client_body
                                ELSE body]
     /\ sent' = Observed(seen, out.sent)
     /\ seen' = SeenAfter(seen, registry, out.sent)
     /\ known' = IF session_id \in DOMAIN out.S.runtimes
                 THEN Put(known, session_id, get_tool_mapping(out.S.runtimes, session_id))
                 ELSE known
     /\ inits' = IF Initialized(body, out)
                 THEN Put(inits, session_id,
                          InitRecord(Replies(out.S, session_id, up), out, session_id))
                 ELSE inits
     /\ UNCHANGED <<registry, store, now, lock, restarts, running>>

\* POST /session/{id}/mcp: ProtocolHandler.handle_request behind the controller.
Serve(session_id, body, up, reply) ==
  /\ Answer(session_id, body, up, reply)
  /\ UNCHANGED tasks

Initialize ==
  \E session_id \in DOMAIN store, body \in Bodies(FanoutEnvelopes, JStr("initialize"), Absent), up \in Ups :
    Serve(session_id, body, up, NoReply)

ToolsList ==
  \E session_id \in DOMAIN store, body \in Bodies(FanoutEnvelopes, JStr("tools/list"), Absent), up \in Ups :
    Serve(session_id, body, up, NoReply)

\* A tools/call that names a tool of the session's tool map.
ToolsCall ==
  \E session_id \in DOMAIN store :
    \E params \in NamedParams(DOMAIN get_tool_mapping(runtimes, session_id)),
       reply \in CallReplies(nextId + 1) :
      \E body \in Bodies(Envelopes, JStr("tools/call"), params) :
        Serve(session_id, body, NoUps, reply)

\* The tool names that the client of a session was told of: those that its
\* latest request left in the tool map and those of its latest initialize.
Told(session_id) ==
  DOMAIN known[session_id]
  \cup (IF session_id \in DOMAIN inits THEN DOMAIN inits[session_id].tool_map ELSE {})

\* A tools/call that names a tool that the client was told of and that the
\* session's tool map no longer has.
StaleToolsCall ==
  \E session_id \in DOMAIN store \cap DOMAIN known :
    \E params \in NamedParams(Told(session_id)
                                \ DOMAIN get_tool_mapping(runtimes, session_id)) :
      \E body \in Bodies(FanoutEnvelopes, JStr("tools/call"), params) :
        Serve(session_id, body, NoUps, NoReply)

\* A tools/call that names no tool of the session's tool map.
BadToolsCall ==
  \E session_id \in DOMAIN store, params \in BadParams :
    \E body \in Bodies(ErrorEnvelopes, JStr("tools/call"), params) :
      Serve(session_id, body, NoUps, NoReply)

Unsupported ==
  \E session_id \in DOMAIN store, method \in OtherMethods :
    \E body \in Bodies(ErrorEnvelopes, method, Absent) :
      Serve(session_id, body, NoUps, NoReply)

UnknownSession ==
  \E session_id \in {Len(store) + 1}, body \in UnknownBodies :
    Serve(session_id, body, NoUps, NoReply)

\* Time passes.
Tick ==
  \E d \in TickSteps :
    /\ now + d <= MaxTicks * ClockStep
    /\ ops < MaxOps
    /\ ops' = ops + 1
    /\ now' = now + d
    /\ UNCHANGED <<registry, store, runtimes, pool, handles, idmap, nextId, resp, sent, seen, known, inits, tasks, lock,
                   restarts, running>>

\* The shutdown half of the lifespan: ConnectionManager.aclose_all, after
\* which the process serves no request.
Shutdown ==
  /\ running
  /\ restarts < MaxRestarts
  /\ running' = FALSE
  /\ handles' = aclose_all(pool, handles)
  /\ pool' = {}
  /\ resp' = [op |-> "shutdown"]
  /\ sent' = {}
  /\ UNCHANGED <<registry, store, runtimes, idmap, nextId, now, seen, known, inits, tasks, lock, ops, restarts>>

\* A new process on the same store: create_app, then the startup half of
\* the lifespan, load_persisted_sessions.
Restart ==
  \E reg \in Registries :
    /\ restarts < MaxRestarts
    /\ ops < MaxOps
    /\ ops' = ops + 1
    /\ restarts' = restarts + 1
    /\ running' = TRUE
    /\ registry' = reg
    /\ \E l \in {load_loop(reg, store, 1, EmptyDict, {}, EmptyDict)} :
       /\ store' = l.store
       /\ runtimes' = l.runtimes
       /\ pool' = l.pool
       /\ handles' = l.handles
    /\ idmap' = EmptyDict
    /\ resp' = [op |-> "startup"]
    /\ sent' = {}
    /\ UNCHANGED <<nextId, now, seen, known, inits, tasks, lock>>

Next ==
  \/ CreateSession
  \/ Initialize
  \/ ToolsList
  \/ ToolsCall
  \/ StaleToolsCall
  \/ BadToolsCall
  \/ Unsupported
  \/ UnknownSession
  \/ Tick
  \/ Shutdown
  \/ Restart

Spec == Init /\ [][Next]_vars

(***************************************************************************)
(* The properties.  resp and sent describe the latest request served.      *)
(***************************************************************************)
Method(r) == Get(r.body, "method")
Served(method) == resp.op = "handle_request" /\ Method(resp) = JStr(method)
FanOutServed == Served("initialize") \/ Served("tools/list")
Succeeded == resp.kind = "return" /\ "result" \in DOMAIN resp.value
Failed == resp.kind = "return" /\ "error" \in DOMAIN resp.value
ReturnedTools == resp.value["result"].d["tools"].v
ReturnedInfo == resp.value["result"].d["server_info"].v
ReturnedProviders == [i \in 1..Len(ReturnedInfo) |-> ReturnedInfo[i].provider]
Requested(session_id) ==
  {store[session_id].servers[i].name : i \in 1..Len(store[session_id].servers)}

\* A step that serves one request.
RequestStep ==
  /\ ops' = ops + 1
  /\ now' = now
  /\ restarts' = restarts
  /\ resp'.op = "handle_request"

\* C1: on a session that has a runtime state, initialize and tools/list
\* return a success result with one server_info entry per provider, whatever
\* each provider does; they never raise.
C1_FanOutNeverRaises ==
  (FanOutServed /\ resp.session \in DOMAIN runtimes) =>
    /\ Succeeded
    /\ ReturnedProviders = runtimes[resp.session].connections

\* C2: a tools/call that returns a successful upstream payload returns it
\* with the client's id, of the client's JSON type.
C2_ClientIdPreserved ==
  (Served("tools/call") /\ Succeeded /\ sent # {}) =>
    resp.value["id"] = Get(resp.body, "id")

\* C3: after a tools/list returns, every returned tool name t has an entry
\* in tool_name_map whose provider is one of the session's providers and for
\* which t = sanitize(provider) + "__" + sanitize(backend_tool_name).
C3_ListedToolsAreMapped ==
  (Served("tools/list") /\ Succeeded) =>
    /\ resp.session \in DOMAIN runtimes
    /\ \A i \in 1..Len(ReturnedTools) :
         LET t == ReturnedTools[i].d["name"].v
             tool_name_map == runtimes[resp.session].tool_name_map
         IN /\ t \in DOMAIN tool_name_map
            /\ tool_name_map[t].provider \in Range(runtimes[resp.session].connections)
            /\ t = sanitize(tool_name_map[t].provider) \o <<"_", "_">>
                     \o sanitize(tool_name_map[t].backend_tool_name)

\* A tools/list served from the cache returned two tools, one per provider.
C3_Witness ==
  /\ Served("tools/list") /\ Succeeded
  /\ sent = {}
  /\ Len(ReturnedTools) = 2
  /\ Cardinality(DOMAIN runtimes[resp.session].tool_name_map) = 2

\* C4: the tools returned by initialize or tools/list and the entries of
\* tool_name_map are in one-to-one correspondence: no two tools share a
\* prefixed name.
C4_OneMapEntryPerTool ==
  (FanOutServed /\ Succeeded /\ resp.session \in DOMAIN runtimes) =>
    Cardinality(DOMAIN runtimes[resp.session].tool_name_map) = Len(ReturnedTools)

\* C5: the providers named in the server_info that initialize returns are
\* exactly the providers requested at create_session, one entry each.
C5_ServerInfoIsRequestedSet ==
  (Served("initialize") /\ Succeeded) =>
    /\ Range(ReturnedProviders) = Requested(resp.session)
    /\ Len(ReturnedInfo) = Cardinality(Requested(resp.session))

\* An initialize returned with one provider failed and the other succeeded.
C5_Witness ==
  /\ Served("initialize") /\ Succeeded
  /\ \E i, j \in 1..Len(ReturnedInfo) :
       ReturnedInfo[i].status = "error" /\ ReturnedInfo[j].status = "ok"

\* C6: a tools/list that follows a tools/list on the same session, less than
\* 600 s after the cache was written, returns the same tools and server_info
\* and sends no upstream request.
C6_SecondListIsCacheHit ==
  [][(/\ Served("tools/list") /\ Succeeded
      /\ RequestStep
      /\ Method(resp') = JStr("tools/list")
      /\ resp'.session = resp.session
      /\ resp.session \in DOMAIN runtimes
      /\ runtimes[resp.session].cached_tools_ts # None
      /\ now - runtimes[resp.session].cached_tools_ts.v < CACHE_TTL_SECONDS)
     => (/\ resp'.kind = "return"
         /\ resp'.value["result"] = resp.value["result"]
         /\ sent' = {})]_vars

\* A tools/list was served from a cache written 300 s earlier.
C6_Witness ==
  /\ Served("tools/list") /\ Succeeded
  /\ sent = {}
  /\ Len(ReturnedTools) > 0
  /\ now - runtimes[resp.session].cached_tools_ts.v = ClockStep

\* C7: tools/list serves the cache only when it is valid; in every other
\* case it sends a request to every provider and rewrites cached_tools,
\* cached_tools_ts and cached_tools_providers.
C7_MissRewritesCache ==
  [][(/\ RequestStep
      /\ Method(resp') = JStr("tools/list")
      /\ resp'.session \in DOMAIN runtimes)
     => LET session_id == resp'.session
            runtime == runtimes[session_id]
            current_providers == frozenset(Range(runtime.connections))
        IN IF cache_is_valid(runtime, current_providers, now)
           THEN TRUE
           ELSE /\ {r.provider : r \in sent'} = Range(runtime.connections)
                /\ session_id \in DOMAIN runtimes'
                /\ runtimes'[session_id].cached_tools # None
                /\ runtimes'[session_id].cached_tools_ts = float(now)
                /\ runtimes'[session_id].cached_tools_providers = current_providers
                /\ resp'.kind = "return"
                /\ runtimes'[session_id].cached_tools.result = resp'.value["result"]]_vars

\* C8: once a response of a provider in a session carried a header that
\* persist_response_headers names, every later request to the provider in
\* the session carries the header with the value captured.
C8_CapturedHeaderPersists ==
  \A r \in sent : \A h \in DOMAIN r.due :
    h \in DOMAIN r.headers /\ r.headers[h] = r.due[h]

\* The code of the JSON-RPC error that C9 states for an upstream outcome
\* (0: no error).
C9_Code(o) ==
  IF o.kind = "TimeoutException" THEN -32002
  ELSE IF o.kind = "RequestError" THEN -32003
  ELSE IF o.status_code \notin 200..299 THEN -32003
  ELSE IF ~decode(o).ok THEN -32004
  ELSE IF ~isdict(decode(o).data) THEN -32603
  ELSE 0

\* C9: a forwarded tools/call whose upstream fails returns a JSON-RPC error
\* with the request's id and the code of the failure: -32002 timeout,
\* -32003 non-2xx status or transport error, -32004 undecodable body,
\* -32603 payload that is not an object.
C9_FailureCodes ==
  Served("tools/call") =>
    \A r \in sent :
      C9_Code(r.reply) # 0 =>
        /\ Failed
        /\ "result" \notin DOMAIN resp.value
        /\ resp.value["error"].code = C9_Code(r.reply)
        /\ resp.value["id"] = Get(resp.body, "id")
        /\ resp.value["jsonrpc"] = GetOr(resp.body, "jsonrpc", JStr("2.0"))

\* A forwarded tools/call got a 503 with an undecodable body and returned -32003.
C9_Witness ==
  /\ Served("tools/call") /\ Failed
  /\ \E r \in sent : /\ r.reply.kind = "response"
                      /\ r.reply.status_code = 503
                      /\ ~decode(r.reply).ok
  /\ resp.value["error"].code = -32003

\* C10: every request to a session's MCP endpoint ends in a JSON-RPC
\* response object, result or error; handle_request never raises.
C10_AlwaysJsonRpcResponse ==
  resp.op = "handle_request" => (Succeeded \/ Failed)

\* The error code of the latest response, 0 when it is not an error.
ErrorCode ==
  IF resp.op = "handle_request" /\ Failed THEN resp.value["error"].code ELSE 0
UnknownServed == resp.op = "handle_request" /\ resp.session \notin DOMAIN store

\* C11: a request addressed to a session id that has no record gets a
\* JSON-RPC error with code -32000 whatever its method; nothing is sent
\* upstream, no backend id is registered and no runtime state is created.
C11_UnknownSessionRejected ==
  UnknownServed =>
    /\ ErrorCode = -32000
    /\ sent = {}
    /\ resp.changed = {}
    /\ resp.session \notin DOMAIN runtimes
    /\ \A k \in DOMAIN idmap : SubSeq(k, 1, 1) # str_uuid(resp.session)
    /\ \A k \in pool : k[1] # resp.session

\* A tools/call on an unknown session id was answered with -32000.
C11_Witness ==
  /\ UnknownServed
  /\ Method(resp) = JStr("tools/call")
  /\ ErrorCode = -32000

KnownServed == resp.op = "handle_request" /\ resp.session \in DOMAIN store
SupportedMethods == {JStr("initialize"), JStr("tools/list"), JStr("tools/call")}

\* C12: on an existing session a request whose method is absent or is not a
\* string gets error -32600; only a string method is dispatched.
C12_NonStringMethodInvalid ==
  (KnownServed /\ Method(resp).t # "str") => ErrorCode = -32600

\* C13: on an existing session a request whose method is a string other
\* than initialize, tools/list and tools/call gets error -32601; nothing is
\* sent upstream and neither the runtime state nor the id map changes.
C13_OtherMethodUnsupported ==
  (KnownServed /\ Method(resp).t = "str" /\ Method(resp) \notin SupportedMethods) =>
    /\ ErrorCode = -32601
    /\ sent = {}
    /\ resp.changed = {}

\* The params of the latest tools/call as the handler reads them
\* (body.get("params") or {}), and the tool name in them.
CallParams == pyOr(Get(resp.body, "params"), JObj(EmptyDict))
CallName == Get(CallParams.d, "name")
NamesNoTool ==
  \/ ~truthy(CallName)
  \/ CallName.t # "name"
  \/ CallName.v \notin DOMAIN get_tool_mapping(runtimes, resp.session)

Connections(session_id) ==
  IF session_id \in DOMAIN runtimes THEN Range(runtimes[session_id].connections) ELSE {}
KnownTools(session_id) ==
  IF session_id \in DOMAIN known THEN known[session_id] ELSE EmptyDict

\* C15: a tools/call for a tool that was mapped to a provider that has no
\* handle in the session's runtime connections, as after the session is
\* rebuilt against a registry without the provider, gets error -32001 and
\* nothing is forwarded.
C15_MissingHandleReported ==
  (/\ KnownServed /\ Served("tools/call") /\ isdict(CallParams)
   /\ CallName.t = "name"
   /\ CallName.v \in DOMAIN KnownTools(resp.session)
   /\ KnownTools(resp.session)[CallName.v].provider \notin Connections(resp.session)) =>
    /\ ErrorCode = -32001
    /\ sent = {}

Created == resp.op = "create_session"

\* Whether a name of the list is not in the registry or has a protocol
\* other than http.
InvalidList(servers) ==
  \E i \in 1..Len(servers) :
    \/ servers[i] \notin DOMAIN registry
    \/ lower(registry[servers[i]].protocol) # "http"

\* Whether the headers of a provider of the list cannot be built from the
\* credentials.
Unbuildable(servers, credentials) ==
  \E i \in 1..Len(servers) :
    ~build_headers(registry[servers[i]],
                   IF servers[i] \in DOMAIN credentials THEN credentials[servers[i]]
                   ELSE EmptyDict).ok

\* C16: create_session with a name that is not in the registry, or of a
\* provider whose protocol is not http, is answered 400 and writes no row,
\* no runtime state and no handle, also when the names before it are valid.
C16_InvalidListRejected ==
  (Created /\ InvalidList(resp.servers)) =>
    /\ resp.status = 400
    /\ resp.session = 0
    /\ resp.changed = {}

\* A list whose second provider speaks websocket was rejected.
C16_Witness ==
  /\ Created
  /\ resp.servers = <<PA, PW>>
  /\ resp.status = 400
  /\ resp.changed = {}

\* C17: when the runtime state of a validated list cannot be built, the row
\* that create_session persisted ends in state failed and the caller gets
\* an error; a create_session that failed never leaves its row ready.
C17_FailedCreateMarksFailed ==
  Created =>
    /\ (~InvalidList(resp.servers) /\ Unbuildable(resp.servers, resp.credentials)) =>
         /\ resp.status # 201
         /\ resp.session \in DOMAIN store
         /\ store[resp.session].state = "failed"
    /\ (resp.status # 201 /\ resp.session \in DOMAIN store) =>
         store[resp.session].state = "failed"

\* A list with a bearer provider and no token: answered 400, row failed.
C17_Witness ==
  /\ Created
  /\ resp.servers = <<PA, PB>>
  /\ resp.status = 400
  /\ resp.session \in DOMAIN store
  /\ store[resp.session].state = "failed"

\* What a step may do to the rows of the store.
RowsKept ==
  /\ \A id \in DOMAIN store :
       /\ id \in DOMAIN store'
       /\ \/ store'[id].state = store[id].state
          \/ /\ store[id].state = "ready"
             /\ store'[id].state = "failed"
             /\ resp'.op = "create_session"
  /\ \A id \in DOMAIN store' \ DOMAIN store :
       /\ resp'.op = "create_session"
       /\ store'[id].state = IF resp'.status = 201 THEN "ready" ELSE "failed"

\* C18: no step deletes a row; the state of a row changes only from ready
\* to failed and only in create_session; serving requests, restoring at
\* startup and restoring lazily leave every row as it is.
C18_StateOnlyFails == [][RowsKept]_vars

\* After a restart a ready session could not be restored lazily, and its
\* row is still ready.
C18_Witness ==
  /\ restarts = 1
  /\ KnownServed
  /\ resp.kind = "raise"
  /\ store[resp.session].state = "ready"
  /\ resp.session \notin DOMAIN runtimes

\* C19: the connections of every runtime state of the table are those of
\* the providers listed in the session's row, no more and no fewer.
C19_ConnectionsAreRecordProviders ==
  \A id \in DOMAIN runtimes :
    /\ id \in DOMAIN store
    /\ Connections(id) = Requested(id)

\* A runtime state restored at startup and then used has both providers.
C19_Witness ==
  /\ restarts = 1
  /\ KnownServed /\ Succeeded
  /\ resp.session \in DOMAIN runtimes
  /\ Connections(resp.session) = {PA, PB}

\* The providers that have a handle of the session in a connection pool.
Pooled(pl, id) == {k[2] : k \in {x \in pl : x[1] = id}}

\* Sessions are created before the first restart, under the registry of
\* Init: the registry is unchanged when it is that one.
RegistryUnchanged == registry = FullRegistry

\* C20: after a restart with the registry that the sessions were created
\* with, load_persisted_sessions and get_runtime_state give every ready
\* session a runtime state whose provider handles are those that
\* create_session built, one per provider of the row.
C20_RestartRestoresHandles ==
  (resp.op = "startup" /\ RegistryUnchanged) =>
    \A id \in DOMAIN store :
      store[id].state = "ready" =>
        LET g == get_runtime_state(registry, store, runtimes, pool, handles, id)
        IN /\ g.ok
           /\ id \in DOMAIN g.runtimes
           /\ Range(g.runtimes[id].connections) = Requested(id)
           /\ Pooled(g.pool, id) = Requested(id)
           /\ \A p \in Requested(id) : ~g.handles[<<id, p>>].closed

\* A ready session of two providers went through a restart with the same
\* registry.
C20_Witness ==
  /\ resp.op = "startup" /\ RegistryUnchanged
  /\ \E id \in DOMAIN store :
       /\ store[id].state = "ready"
       /\ Requested(id) = {PA, PB}
       /\ id \in DOMAIN runtimes

(***************************************************************************)
(* Startup on a store of several rows: the rows are those that a sequence  *)
(* of create_session calls leaves, then the process stops and starts.      *)
(***************************************************************************)
MaxRows == 3

LoadServerLists == {<<PA, PB>>, <<PA>>, <<PB>>}
CreateRequests == LoadServerLists \X CredentialBags

\* The state of Init.
InitialState ==
  [registry |-> FullRegistry, store |-> <<>>, runtimes |-> EmptyDict, pool |-> {},
   handles |-> EmptyDict, idmap |-> EmptyDict, nextId |-> 0, now |-> 0]

\* The state after the create_session calls of reqs.
RECURSIVE create_sessions(_, _)
create_sessions(S, reqs) ==
  IF reqs = <<>> THEN S
  ELSE create_sessions(create_session(S, Head(reqs)[1], Head(reqs)[2]).S, Tail(reqs))

LoadInit ==
  \E n \in 0..MaxRows :
    \E reqs \in [1..n -> CreateRequests] :
      \E S \in {create_sessions(InitialState, reqs)} :
        /\ registry = S.registry
        /\ store = S.store
        /\ runtimes = S.runtimes
        /\ pool = S.pool
        /\ handles = S.handles
        /\ idmap = S.idmap
        /\ nextId = S.nextId
        /\ now = S.now
        /\ resp = [op |-> "none"]
        /\ sent = {}
        /\ seen = EmptyDict
        /\ known = EmptyDict
  /\ inits = EmptyDict
        /\ tasks = <<>>
        /\ lock = FreeLock
        /\ ops = 0
        /\ restarts = 0
        /\ running = TRUE

LoadNext ==
  \/ Shutdown
  \/ Restart

LoadSpec == LoadInit /\ [][LoadNext]_vars

\* Whether the runtime state of a row can be built under the registry: its
\* providers are configured and their headers can be built.
Restorable(id) ==
  \A i \in 1..Len(store[id].servers) :
    LET name == store[id].servers[i].name
    IN /\ name \in DOMAIN registry
       /\ build_headers(registry[name],
                        IF name \in DOMAIN store[id].credentials
                        THEN store[id].credentials[name] ELSE EmptyDict).ok

\* C21: load_persisted_sessions rebuilds the runtime state of the rows in
\* state ready and touches no other row; a row whose rebuild fails gets no
\* runtime state and the rows after it are still rebuilt.
C21_LoadIsBestEffort ==
  resp.op = "startup" =>
    \A id \in DOMAIN store :
      /\ id \in DOMAIN runtimes <=> (store[id].state = "ready" /\ Restorable(id))
      /\ store[id].state # "ready" => Pooled(pool, id) = {}

\* A ready row could not be rebuilt and a later row was.
C21_Witness ==
  /\ resp.op = "startup"
  /\ \E id \in DOMAIN store, later \in DOMAIN store :
       /\ id < later
       /\ store[id].state = "ready"
       /\ ~Restorable(id)
       /\ id \notin DOMAIN runtimes
       /\ later \in DOMAIN runtimes

(***************************************************************************)
(* async_retry on its own: Init draws an operation, a number of retries,   *)
(* a base delay and the transient classes; the step applies async_retry.   *)
(***************************************************************************)
MaxRetries == 2
MaxDelay == 2

Ok(v) == [kind |-> "ok", value |-> v]
Outcomes ==
  {Ok("r"), ConnectError, TimeoutException, TypeError,
   Response(503, "application/json", NoHeaders, Garbage)}
Operations == UNION {[1..n -> Outcomes] : n \in 1..(MaxRetries + 1)}
TransientSets == {{"RequestError"}, {"NetworkError", "TypeError"}}

RetryInit ==
  \E func \in Operations, retries \in 0..MaxRetries, base_delay \in 1..MaxDelay,
     exceptions \in TransientSets :
    /\ resp = [op |-> "call", func |-> func, retries |-> retries,
               base_delay |-> base_delay, exceptions |-> exceptions]
    /\ registry = FullRegistry
    /\ store = <<>>
    /\ runtimes = EmptyDict
    /\ pool = {}
    /\ handles = EmptyDict
    /\ idmap = EmptyDict
    /\ nextId = 0
    /\ now = 0
    /\ sent = {}
    /\ seen = EmptyDict
    /\ known = EmptyDict
  /\ inits = EmptyDict
    /\ tasks = <<>>
    /\ lock = FreeLock
    /\ ops = 0
    /\ restarts = 0
    /\ running = TRUE

Retry ==
  /\ resp.op = "call"
  /\ resp' = [op |-> "async_retry", func |-> resp.func, retries |-> resp.retries,
              base_delay |-> resp.base_delay, exceptions |-> resp.exceptions,
              result |-> async_retry(resp.func, resp.retries, resp.base_delay,
                                     resp.exceptions)]
  /\ UNCHANGED <<registry, store, runtimes, pool, handles, idmap, nextId, now, sent, seen,
                 known, inits, tasks, lock, ops, restarts, running>>

\* One BackendHandle.post of an open or a closed handle on the operation.
Post ==
  \E closed \in BOOLEAN :
    /\ resp.op = "call"
    /\ resp' = [op |-> "post", func |-> resp.func, closed |-> closed,
                result |-> post_sends([BackendHandle(NoHeaders) EXCEPT !.closed = closed],
                                      resp.func)]
    /\ UNCHANGED <<registry, store, runtimes, pool, handles, idmap, nextId, now, sent, seen,
                   known, inits, tasks, lock, ops, restarts, running>>

RetryNext ==
  \/ Retry
  \/ Post

RetrySpec == RetryInit /\ [][RetryNext]_vars

Transient(r, n) == caught(invoke(r.func, n), r.exceptions)

\* C22: async_retry invokes the operation at most retries + 1 times and
\* ends with the outcome of its last invocation: the first outcome that is
\* not a transient failure (a value, or a failure that propagates with no
\* sleep before it), or the transient failure of invocation retries + 1;
\* before invocation k + 2 it sleeps base_delay * 2^k; with retries = 0 it
\* invokes once.
C22_RetryContract ==
  resp.op = "async_retry" =>
    LET r == resp.result
    IN /\ r.calls \in 1..(resp.retries + 1)
       /\ r.outcome = invoke(resp.func, r.calls)
       /\ \A n \in 1..(r.calls - 1) : Transient(resp, n)
       /\ Transient(resp, r.calls) => r.calls = resp.retries + 1
       /\ Len(r.sleeps) = r.calls - 1
       /\ \A k \in 0..(r.calls - 2) : r.sleeps[k + 1] = resp.base_delay * 2^k
       /\ resp.retries = 0 => r.calls = 1

\* Two transient failures and then a value: three invocations, two sleeps.
C22_Witness ==
  /\ resp.op = "async_retry"
  /\ resp.retries = 2
  /\ resp.result.calls = 3
  /\ resp.result.outcome.kind = "ok"
  /\ resp.result.sleeps = <<resp.base_delay, 2 * resp.base_delay>>

\* C23: BackendHandle.post sends a request again only after a network
\* failure (network error, connection reset, DNS failure): a response, also
\* one with a non-2xx status, and any other failure, an upstream timeout
\* included, end the post after a single send.
C23_ResendOnlyAfterNetworkFailure ==
  resp.op = "post" =>
    \A n \in 1..(resp.result.calls - 1) :
      "NetworkError" \in Mro(invoke(resp.func, n).kind)

(***************************************************************************)
(* Concurrent callers of ConnectionManager.get_or_create_handle and one    *)
(* aclose_all.  A task is suspended only where the code awaits: at the     *)
(* acquisition of the lock and, in aclose_all, at each handle.aclose().    *)
(***************************************************************************)
MaxTasks == 3
MaxCloses == 1

AuthHeaders == ("authorization" :> "Bearer t1")
CallHeaders == {EmptyDict, AuthHeaders}

\* The runtime argument: absent, or a runtime state that captured S1 from PA.
CapturedRuntime ==
  [RuntimeSessionState(<<PA, PB>>) EXCEPT !.provider_session_headers = (PA :> S1)]
CallRuntimes == {None, CapturedRuntime}

Idle == [pc |-> "idle"]
Owner(t) == [t |-> "task", id |-> t]

PoolInit ==
  /\ tasks = [t \in 1..MaxTasks |-> Idle]
  /\ lock = FreeLock
  /\ registry = FullRegistry
  /\ store = <<>>
  /\ runtimes = EmptyDict
  /\ pool = {}
  /\ handles = EmptyDict
  /\ idmap = EmptyDict
  /\ nextId = 0
  /\ now = 0
  /\ resp = [op |-> "none"]
  /\ sent = {}
  /\ seen = EmptyDict
  /\ known = EmptyDict
  /\ inits = EmptyDict
  /\ ops = 0
  /\ restarts = 0
  /\ running = TRUE

PoolFrame ==
  UNCHANGED <<registry, store, runtimes, idmap, nextId, now, resp, sent, seen, known, inits, ops,
              restarts, running>>

\* A task calls get_or_create_handle and reaches `async with self._lock`.
Call(t) ==
  \E provider_name \in {PA, PB}, headers \in CallHeaders, runtime \in CallRuntimes :
    /\ tasks[t].pc = "idle"
    /\ tasks' = [tasks EXCEPT ![t] = [pc |-> "waiting", session_id |-> 1,
                                      provider_name |-> provider_name,
                                      headers |-> headers, runtime |-> runtime]]
    /\ UNCHANGED <<lock, pool, handles>>
    /\ PoolFrame

\* The lock is free: the task takes it.
Acquire(t) ==
  /\ tasks[t].pc = "waiting"
  /\ lock.owner.t = "free"
  /\ lock' = [lock EXCEPT !.owner = Owner(t)]
  /\ tasks' = [tasks EXCEPT ![t].pc = "locked"]
  /\ UNCHANGED <<pool, handles>>
  /\ PoolFrame

\* The body of the with block, which awaits nothing, and the release.
LookupOrInsert(t) ==
  /\ tasks[t].pc = "locked"
  /\ LET a == tasks[t]
         key == <<a.session_id, a.provider_name>>
         g == get_or_create_handle(pool, handles, a.session_id, a.provider_name,
                                   a.headers, a.runtime)
     IN /\ pool' = g.pool
        /\ handles' = g.handles
        /\ tasks' = [tasks EXCEPT ![t] =
                       [pc |-> "returned", session_id |-> a.session_id,
                        provider_name |-> a.provider_name, headers |-> a.headers,
                        runtime |-> a.runtime,
                        existed |-> key \in pool,
                        found |-> IF key \in pool THEN handles[key] ELSE None,
                        created |-> g.pool # pool \/ g.handles # handles,
                        handle |-> g.handles[key],
                        closes |-> lock.closes]]
  /\ lock' = [lock EXCEPT !.owner = [t |-> "free"]]
  /\ PoolFrame

\* The caller uses its handle: upstream I/O.
Use(t) ==
  /\ tasks[t].pc = "returned"
  /\ tasks' = [tasks EXCEPT ![t].pc = "posting"]
  /\ UNCHANGED <<lock, pool, handles>>
  /\ PoolFrame

\* aclose_all takes the lock.
CloseAcquire ==
  /\ lock.closer = "idle"
  /\ lock.closes < MaxCloses
  /\ lock.owner.t = "free"
  /\ lock' = [lock EXCEPT !.owner = [t |-> "closer"], !.closer = "closing"]
  /\ UNCHANGED <<tasks, pool, handles>>
  /\ PoolFrame

\* await handle.aclose() for one handle of the table.
CloseOne ==
  \E key \in pool :
    /\ lock.closer = "closing"
    /\ ~handles[key].closed
    /\ handles' = [handles EXCEPT ![key].closed = TRUE]
    /\ UNCHANGED <<tasks, lock, pool>>
    /\ PoolFrame

\* Every handle is closed: self._handles.clear() and the release.
CloseClear ==
  /\ lock.closer = "closing"
  /\ \A key \in pool : handles[key].closed
  /\ handles = aclose_all(pool, handles)
  /\ pool' = {}
  /\ lock' = [owner |-> [t |-> "free"], closer |-> "idle", closes |-> lock.closes + 1]
  /\ UNCHANGED <<tasks, handles>>
  /\ PoolFrame

PoolNext ==
  \/ \E t \in 1..MaxTasks : Call(t)
  \/ \E t \in 1..MaxTasks : Acquire(t)
  \/ \E t \in 1..MaxTasks : LookupOrInsert(t)
  \/ \E t \in 1..MaxTasks : Use(t)
  \/ CloseAcquire
  \/ CloseOne
  \/ CloseClear

PoolSpec == PoolInit /\ [][PoolNext]_vars

Returned(t) == tasks[t].pc \in {"returned", "posting"}
SessionHeaders(a) ==
  IF a.provider_name \in DOMAIN a.runtime.provider_session_headers
  THEN a.runtime.provider_session_headers[a.provider_name] ELSE EmptyDict

\* C24: a handle that get_or_create_handle creates when a runtime is given
\* has as its default headers the given headers updated with the headers
\* the runtime captured from the provider.
C24_NewHandleHasCapturedHeaders ==
  \A t \in DOMAIN tasks :
    (Returned(t) /\ tasks[t].created /\ tasks[t].runtime # None) =>
      tasks[t].handle.headers = Update(tasks[t].headers, SessionHeaders(tasks[t]))

SamePair(t, u) ==
  /\ tasks[t].session_id = tasks[u].session_id
  /\ tasks[t].provider_name = tasks[u].provider_name

\* C25: however the concurrent calls interleave, between two aclose_all at
\* most one call creates a handle for a (session, provider) pair and every
\* call that finds the pair in the table returns the handle found there;
\* the lock is held by a call only across its lookup and insertion, not
\* while it waits or does upstream I/O.
C25_OneHandlePerPair ==
  /\ \A t \in DOMAIN tasks, u \in DOMAIN tasks :
       (t # u /\ Returned(t) /\ Returned(u) /\ SamePair(t, u)
        /\ tasks[t].closes = tasks[u].closes) =>
         ~(tasks[t].created /\ tasks[u].created)
  /\ \A t \in DOMAIN tasks :
       (Returned(t) /\ tasks[t].existed) =>
         /\ ~tasks[t].created
         /\ tasks[t].handle = tasks[t].found
  /\ \A t \in DOMAIN tasks : tasks[t].pc = "locked" <=> lock.owner = Owner(t)

\* Two calls for one pair with different headers: the second returned the
\* handle of the first while a third call was waiting for the lock.
C25_Witness ==
  \E t \in DOMAIN tasks, u \in DOMAIN tasks, w \in DOMAIN tasks :
    /\ Returned(t) /\ Returned(u) /\ SamePair(t, u)
    /\ tasks[t].created /\ ~tasks[u].created
    /\ tasks[t].headers # tasks[u].headers
    /\ tasks[u].handle.headers = tasks[t].headers
    /\ tasks[w].pc = "waiting"
    /\ lock.owner.t = "closer"

(***************************************************************************)
(* The IdMapper on its own: a sequence of register calls; sent keeps, for  *)
(* each call, its arguments and the backend id it returned.                *)
(***************************************************************************)
MaxIds == 3
MaxUuids == 2

PColon == <<":", "a">>
IdProviders == {PA, PColon}
ClientIds == {JInt("7"), JStr("7"), None}

IdInit ==
  /\ idmap = EmptyDict
  /\ nextId = 0
  /\ sent = {}
  /\ resp = [op |-> "none"]
  /\ registry = FullRegistry
  /\ store = <<>>
  /\ runtimes = EmptyDict
  /\ pool = {}
  /\ handles = EmptyDict
  /\ now = 0
  /\ seen = EmptyDict
  /\ known = EmptyDict
  /\ inits = EmptyDict
  /\ tasks = <<>>
  /\ lock = FreeLock
  /\ ops = 0
  /\ restarts = 0
  /\ running = TRUE

Register ==
  \E session_id \in 1..MaxUuids, provider \in IdProviders, client_id \in ClientIds :
    /\ nextId < MaxIds
    /\ nextId' = nextId + 1
    /\ idmap' = register(idmap, nextId + 1, session_id, provider, client_id)
    /\ resp' = [op |-> "register", backend_id |-> uuid4(nextId + 1).v]
    /\ sent' = sent \cup {[session |-> session_id, provider |-> provider,
                            client_id |-> client_id, backend_id |-> uuid4(nextId + 1)]}
    /\ UNCHANGED <<registry, store, runtimes, pool, handles, now, seen, known, inits, tasks, lock,
                   ops, restarts, running>>

IdNext == Register

IdSpec == IdInit /\ [][IdNext]_vars

\* C26: after any sequence of register calls, resolve_backend of a backend
\* id that register returned gives, under the session and provider of that
\* call, the client id of the call, of the same type, and gives nothing
\* under another session or provider; no backend id is returned twice.
C26_RegisterResolveRoundTrip ==
  /\ \A r \in sent :
       /\ resolve_backend(idmap, r.session, r.provider, r.backend_id) = r.client_id
       /\ \A session_id \in 1..MaxUuids, provider \in IdProviders :
            <<session_id, provider>> # <<r.session, r.provider>> =>
              resolve_backend(idmap, session_id, provider, r.backend_id) = None
  /\ \A r \in sent, q \in sent : r # q => r.backend_id # q.backend_id

\* The number 7 and the string "7" were registered for one session with two
\* providers, and a third id for another session.
C26_Witness ==
  \E r \in sent, q \in sent, o \in sent :
    /\ r.session = q.session /\ r.provider # q.provider
    /\ r.client_id = JInt("7") /\ q.client_id = JStr("7")
    /\ o.session # r.session

(***************************************************************************)
(* Initialize once more.                                                   *)
(***************************************************************************)
\* The latest request is an initialize that succeeded on a session whose
\* previous successful initialize met the same upstream content.
Reinitialized ==
  /\ Served("initialize")
  /\ Succeeded
  /\ resp.prior # None
  /\ resp.prior.replies = resp.replies

\* C27: with the upstream content fixed, an initialize that follows another
\* one on the session returns the same combined tools and leaves the tool
\* map that the previous initialize installed, whatever tools/list and
\* tools/call requests were served in between.
C27_InitializeIdempotent ==
  Reinitialized =>
    /\ ReturnedTools = resp.prior.tools
    /\ inits[resp.session].tool_map = resp.prior.tool_map

\* A session was initialized, a tools/list that met other upstream content
\* replaced its tool map, and the session was initialized again with the
\* content of the first time, which has a tool.
C27_Witness ==
  /\ Reinitialized
  /\ ops = 3
  /\ restarts = 0
  /\ resp.prior.tool_map # EmptyDict
  /\ resp.before # EmptyDict
  /\ DOMAIN resp.before \cap DOMAIN resp.prior.tool_map = {}
  /\ known[resp.session] = resp.prior.tool_map
  /\ Len(ReturnedTools) > 0

(***************************************************************************)
(* The fan-out and the order of its replies: sessions that register PA     *)
(* and PB in either order, and replies that arrive in either order.        *)
(***************************************************************************)
FanServerLists == {<<PA, PB>>, <<PB, PA>>}
Arrivals == {<<PA, PB>>, <<PB, PA>>}
FanUps == UpsArriving(Arrivals)

FanInit ==
  \E servers \in FanServerLists :
    \E S \in {create_sessions(InitialState,
                                <<<<servers, (PB :> ("token" :> JStr("t1")))>>>>)} :
      /\ registry = S.registry
      /\ store = S.store
      /\ runtimes = S.runtimes
      /\ pool = S.pool
      /\ handles = S.handles
      /\ idmap = S.idmap
      /\ nextId = S.nextId
      /\ now = S.now
      /\ resp = [op |-> "none"]
      /\ sent = {}
      /\ seen = EmptyDict
      /\ known = EmptyDict
      /\ inits = EmptyDict
      /\ tasks = <<>>
      /\ lock = FreeLock
      /\ ops = 0
      /\ restarts = 0
      /\ running = TRUE

FanInitialize ==
  \E session_id \in DOMAIN store, up \in FanUps :
    \E body \in Bodies(FanoutEnvelopes, JStr("initialize"), Absent) :
      Serve(session_id, body, up, NoReply)

FanToolsList ==
  \E session_id \in DOMAIN store, up \in FanUps :
    \E body \in Bodies(FanoutEnvelopes, JStr("tools/list"), Absent) :
      Serve(session_id, body, up, NoReply)

FanNext ==
  \/ FanInitialize
  \/ FanToolsList

FanSpec == FanInit /\ [][FanNext]_vars

\* The providers of a session in the order of their registration: the names
\* in the servers of its row, each once.
Registered(session_id) ==
  DictKeys([i \in 1..Len(store[session_id].servers) |-> store[session_id].servers[i].name])

\* The place of provider p in the registration order.
Place(connections, p) == CHOOSE i \in 1..Len(connections) : connections[i] = p

\* The provider that a returned tool came from, and what the backend said
\* of it apart from its name.
ToolProvider(tool) == tool.d["description"].provider
OwnTools(p) == SelectSeq(ReturnedTools, LAMBDA tool : ToolProvider(tool) = p)

\* The named tools of a backend's reply, in the backend's order.
BackendTools(reply) ==
  SelectSeq(decode(reply).data.d["result"].d["tools"].v,
            LAMBDA tool : truthy(Get(tool.d, "name")))

Described(tools) == [i \in 1..Len(tools) |-> tools[i].d["description"]]

\* C28: in the result of initialize and of tools/list, server_info lists the
\* session's providers in their registration order, the tools are grouped by
\* provider in that same order, and the tools of a provider that answered
\* are those of its reply in the backend's own order, in whatever order the
\* replies of the concurrent upstream calls arrived.
C28_RegistrationOrder ==
  (FanOutServed /\ Succeeded) =>
    LET connections == Registered(resp.session)
    IN /\ ReturnedProviders = connections
       /\ \A i, j \in 1..Len(ReturnedTools) :
            i < j => Place(connections, ToolProvider(ReturnedTools[i]))
                       <= Place(connections, ToolProvider(ReturnedTools[j]))
       /\ \A r \in sent :
            (\E k \in 1..Len(ReturnedInfo) :
               ReturnedInfo[k].provider = r.provider /\ ReturnedInfo[k].status = "ok")
            => Described(OwnTools(r.provider)) = Described(BackendTools(r.reply))

\* A session that registered PB before PA got PA's reply before PB's, and
\* the result lists PB's tool before the two tools of PA.
C28_Witness ==
  /\ FanOutServed /\ Succeeded
  /\ Registered(resp.session) = <<PB, PA>>
  /\ resp.arrived = <<PA, PB>>
  /\ Len(OwnTools(PB)) = 1
  /\ Len(OwnTools(PA)) = 2
  /\ ToolProvider(ReturnedTools[1]) = PB

(***************************************************************************)
(* tools/list and the status of the upstream responses.                    *)
(***************************************************************************)
\* The requests of the latest fan-out that were answered with a status
\* outside 200..299.
Refused == {r \in sent : r.reply.kind = "response" /\ is_error_status(r.reply)}

\* C29: on a tools/list cache miss, a provider that answers with an HTTP
\* status that is not 2xx is reported in server_info with status "error" and
\* contributes no tool to the returned list, to tool_name_map or to the
\* cache.
C29_ListRefusalIsFailure ==
  (Served("tools/list") /\ Succeeded /\ sent # {}) =>
    \A r \in Refused :
      /\ \E k \in 1..Len(ReturnedInfo) :
           ReturnedInfo[k].provider = r.provider /\ ReturnedInfo[k].status = "error"
      /\ OwnTools(r.provider) = <<>>
      /\ \A name \in DOMAIN get_tool_mapping(runtimes, resp.session) :
           get_tool_mapping(runtimes, resp.session)[name].provider # r.provider
      /\ LET cached == runtimes[resp.session].cached_tools
         IN /\ \A i \in 1..Len(cached.result.d["tools"].v) :
                 ToolProvider(cached.result.d["tools"].v[i]) # r.provider
            /\ \A name \in DOMAIN cached.tool_map :
                 cached.tool_map[name].provider # r.provider

(***************************************************************************)
(* The envelope of the responses.                                          *)
(***************************************************************************)
\* C30: every response that handle_request returns, a result or an error,
\* of whatever method, a successful tools/call included, carries the jsonrpc
\* value of the request, or "2.0" when the request has none, and the id of
\* the request, whatever jsonrpc value the upstream put in its reply.
C30_EnvelopeEchoed ==
  (resp.op = "handle_request" /\ resp.kind = "return") =>
    /\ Get(resp.value, "jsonrpc") = GetOr(resp.body, "jsonrpc", JStr("2.0"))
    /\ Get(resp.value, "id") = Get(resp.body, "id")

(***************************************************************************)
(* A fan-out in flight: the request waits in asyncio.gather while the      *)
(* provider calls complete one by one; it can be cancelled as long as it   *)
(* waits.  tasks holds the request in flight.                              *)
(***************************************************************************)
MaxFlights == 2

\* The variables of a process in state S that has served no request yet.
StartedFrom(S) ==
  /\ registry = S.registry
  /\ store = S.store
  /\ runtimes = S.runtimes
  /\ pool = S.pool
  /\ handles = S.handles
  /\ idmap = S.idmap
  /\ nextId = S.nextId
  /\ now = S.now
  /\ resp = [op |-> "none"]
  /\ sent = {}
  /\ seen = EmptyDict
  /\ known = EmptyDict
  /\ inits = EmptyDict
  /\ tasks = <<>>
  /\ lock = FreeLock
  /\ ops = 0
  /\ restarts = 0
  /\ running = TRUE

FlightInit ==
  StartedFrom(create_sessions(InitialState, <<<<(<<PA, PB>>), (PB :> ("token" :> JStr("t1")))>>>>))

\* The fields of a session's runtime state that initialize and list_tools
\* write.
Written(rts, session_id) ==
  [tool_name_map |-> rts[session_id].tool_name_map,
   cached_tools |-> rts[session_id].cached_tools,
   cached_tools_ts |-> rts[session_id].cached_tools_ts,
   cached_tools_providers |-> rts[session_id].cached_tools_providers,
   provider_session_headers |-> rts[session_id].provider_session_headers]

FlightUps == UpsArriving({<<PA, PB>>})

FlightBodies ==
  Bodies(FanoutEnvelopes, JStr("initialize"), Absent)
  \cup Bodies(FanoutEnvelopes, JStr("tools/list"), Absent)

\* The request reaches asyncio.gather: the provider calls are started.  A
\* request that sends nothing upstream (a cache hit) is answered at once.
Begin ==
  \E session_id \in DOMAIN store \cap DOMAIN runtimes, body \in FlightBodies,
     up \in FlightUps :
    /\ running
    /\ tasks = <<>>
    /\ ops < MaxFlights
    /\ \E out \in {handle_request(State, session_id, body, up, NoReply)} :
       IF out.sent = {}
       THEN Answer(session_id, body, up, NoReply) /\ UNCHANGED tasks
       ELSE /\ tasks' = <<[session |-> session_id, body |-> body, up |-> up,
                           pending |-> {r.provider : r \in out.sent}, done |-> {},
                           before |-> Written(runtimes, session_id)]>>
            /\ UNCHANGED <<registry, store, runtimes, pool, handles, idmap, nextId, now,
                           resp, sent, seen, known, inits, lock, ops, restarts, running>>

\* The reply of one provider arrives and its call_provider returns.
Arrive ==
  /\ tasks # <<>>
  /\ tasks[1].pending # {}
  /\ LET t == tasks[1]
         p == t.up.arrival[CHOOSE k \in 1..Len(t.up.arrival) :
                             /\ t.up.arrival[k] \in t.pending
                             /\ \A j \in 1..(k - 1) : t.up.arrival[j] \notin t.pending]
     IN \E S \in {call_provider_done(State, t.session, p,
                                      post(handles[<<t.session, p>>], t.up.reply[p]))} :
          /\ runtimes' = S.runtimes
          /\ tasks' = <<[t EXCEPT !.pending = @ \ {p}, !.done = @ \cup {p}]>>
  /\ UNCHANGED <<registry, store, pool, handles, idmap, nextId, now, resp, sent, seen,
                 known, inits, lock, ops, restarts, running>>

\* The client goes away while the request waits in gather: CancelledError
\* is raised at the await, the pending calls are cancelled and the results
\* of the others are dropped.
Cancel ==
  /\ tasks # <<>>
  /\ ops < MaxFlights
  /\ ops' = ops + 1
  /\ resp' = [op |-> "cancelled", session |-> tasks[1].session, body |-> tasks[1].body,
              done |-> tasks[1].done, up |-> tasks[1].up, before |-> tasks[1].before]
  /\ tasks' = <<>>
  /\ sent' = {}
  /\ UNCHANGED <<registry, store, runtimes, pool, handles, idmap, nextId, now, seen,
                 known, inits, lock, restarts, running>>

\* Every provider call has completed: gather returns and the rest of the
\* method runs without another await.
Finish ==
  /\ tasks # <<>>
  /\ tasks[1].pending = {}
  /\ Answer(tasks[1].session, tasks[1].body, tasks[1].up, NoReply)
  /\ tasks' = <<>>

FlightNext ==
  \/ Begin
  \/ Arrive
  \/ Cancel
  \/ Finish

FlightSpec == FlightInit /\ [][FlightNext]_vars

InFlight == tasks # <<>>
Cancelled == resp.op = "cancelled"

\* C31: while a provider call of the fan-out of initialize or tools/list is
\* in flight, and after the fan-out was cancelled before its completion, the
\* tool_name_map, the tools cache fields and the provider_session_headers of
\* the session are what they were before the request.
C31_WritesAfterFanOut ==
  /\ InFlight => Written(runtimes, tasks[1].session) = tasks[1].before
  /\ (Cancelled /\ ~InFlight) => Written(runtimes, resp.session) = resp.before

\* An initialize on a session with a tool map and a cache was cancelled
\* after provider a had answered with a session header and other tools.
C31_Witness ==
  /\ Cancelled /\ ~InFlight
  /\ Method(resp) = JStr("initialize")
  /\ resp.done = {PA}
  /\ resp.up.reply[PA].kind = "response"
  /\ SessionHeader \in DOMAIN resp.up.reply[PA].headers
  /\ resp.before.tool_name_map # EmptyDict
  /\ resp.before.cached_tools # None
  /\ resp.before.provider_session_headers = EmptyDict
  /\ Written(runtimes, resp.session) = resp.before

(***************************************************************************)
(* The forwarded tools/call.                                               *)
(***************************************************************************)
\* The latest request is a tools/call on a known session whose name resolves
\* in the session's tool map.
Resolves ==
  /\ KnownServed /\ Served("tools/call")
  /\ isdict(CallParams)
  /\ CallName.t = "name"
  /\ CallName.v \in DOMAIN get_tool_mapping(runtimes, resp.session)
ToolInfo == get_tool_mapping(runtimes, resp.session)[CallName.v]

\* C32: a tools/call whose name resolves in tool_name_map sends one request,
\* to the provider the map names for it; the forwarded body is the client's
\* body with params.name set to the stored backend_tool_name and id set to
\* the backend id registered for this request, which is new and is not the
\* client id; the client's body is left as it was.
C32_ForwardedOnceToMappedProvider ==
  Resolves =>
    /\ Cardinality(sent) = 1
    /\ \A r \in sent :
         /\ r.session = resp.session
         /\ r.provider = ToolInfo.provider
         /\ r.body.d["id"] = uuid4(nextId)
         /\ r.body.d["id"] # Get(resp.body, "id")
         /\ "nextId" \in resp.changed
         /\ resolve_backend(idmap, resp.session, r.provider, r.body.d["id"])
              = Get(resp.body, "id")
         /\ r.body.d =
              [k \in DOMAIN resp.body \cup {"id"} |->
                 IF k = "id" THEN r.body.d["id"]
                 ELSE IF k = "params"
                 THEN JObj([resp.body["params"].d EXCEPT
                              !["name"] = JName(ToolInfo.backend_tool_name)])
                 ELSE resp.body[k]]
    /\ resp.body_after = resp.body

\* A tools/call with the id null, for a tool whose backend name differs from
\* the name the client used, was forwarded and answered.
C32_Witness ==
  /\ Resolves
  /\ Succeeded
  /\ Get(resp.body, "id") = None
  /\ \E r \in sent : r.body.d["params"].d["name"] # resp.body["params"].d["name"]

(***************************************************************************)
(* The tools cache and the tool map.                                       *)
(***************************************************************************)
\* The latest request is a tools/list answered from the cache.
CacheHit == Served("tools/list") /\ Succeeded /\ sent = {}
ToolMap == get_tool_mapping(runtimes, resp.session)

\* C33: a tools/list cache hit leaves in tool_name_map the tool map saved
\* with the cached result, also when an initialize that ran after the cache
\* was filled had installed another map; every tool name of the returned
\* result then resolves in tool_name_map.
C33_HitReinstallsCachedMap ==
  CacheHit =>
    /\ ToolMap = runtimes[resp.session].cached_tools.tool_map
    /\ resp.value["result"] = runtimes[resp.session].cached_tools.result
    /\ \A i \in 1..Len(ReturnedTools) : ReturnedTools[i].d["name"].v \in DOMAIN ToolMap

\* A tools/list filled the cache, an initialize installed a map with other
\* tool names, and a tools/list answered from the cache put the saved map
\* back.
C33_Witness ==
  /\ CacheHit
  /\ "runtimes" \in resp.changed
  /\ resp.session \in DOMAIN inits
  /\ inits[resp.session].tool_map # EmptyDict
  /\ DOMAIN inits[resp.session].tool_map \cap DOMAIN ToolMap = {}
  /\ Len(ReturnedTools) > 0

(***************************************************************************)
(* The object that initialize returns: providers that answer with an       *)
(* empty result object, with no result, and with a result.                 *)
(***************************************************************************)
EmptyResult == JObj(("jsonrpc" :> JStr("2.0")) @@ ("result" :> JObj(EmptyDict)))
NoResult == JObj(("jsonrpc" :> JStr("2.0")) @@ ("error" :> JObj(("code" :> JInt("-32601")))))

ResultReplies(provider) ==
  {RequestError,
   Response(200, "application/json", NoHeaders, PlainBody(EmptyResult)),
   Response(200, "application/json", NoHeaders, PlainBody(NoResult)),
   Response(200, "application/json", NoHeaders,
            PlainBody(ListPayload(provider, <<Tool(provider, TP)>>))),
   Response(200, "application/json", NoHeaders, PlainBody(ListPayload(provider, <<>>)))}

ResultUps ==
  {[reply |-> (PA :> a) @@ (PB :> b), arrival |-> <<PA, PB>>] :
     a \in ResultReplies(PA), b \in ResultReplies(PB)}

ResultInit ==
  \E servers \in FanServerLists :
    StartedFrom(create_sessions(InitialState, <<<<servers, (PB :> ("token" :> JStr("t1")))>>>>))

ResultInitialize ==
  \E session_id \in DOMAIN store, up \in ResultUps :
    \E body \in Bodies(FanoutEnvelopes, JStr("initialize"), Absent) :
      Serve(session_id, body, up, NoReply)

ResultNext == ResultInitialize

ResultSpec == ResultInit /\ [][ResultNext]_vars

\* The providers that the latest initialize reports with status ok, in the
\* order of server_info.
OkProviders ==
  LET oks == SelectSeq(ReturnedInfo, LAMBDA e : e.status = "ok")
  IN [i \in 1..Len(oks) |-> oks[i].provider]

\* The payload that provider p answered to the latest fan-out.
PayloadOf(p) == decode((CHOOSE r \in sent : r.provider = p).reply).data

\* d with its tools and server_info replaced by those of the result.
Overwritten(d) ==
  Put(Put(d, "tools", resp.value["result"].d["tools"]),
      "server_info", resp.value["result"].d["server_info"])

\* C34: the object that initialize returns is the result object of the
\* first provider, in registration order, whose call succeeded, with tools
\* and server_info replaced by the merged ones, also when that result
\* object is empty; when no provider succeeded it is {tools: [],
\* server_info: [...]}.
C34_BaseIsFirstSuccess ==
  (Served("initialize") /\ Succeeded) =>
    IF OkProviders = <<>>
    THEN /\ DOMAIN resp.value["result"].d = {"tools", "server_info"}
         /\ ReturnedTools = <<>>
    ELSE LET first == PayloadOf(OkProviders[1]).d
         IN ("result" \in DOMAIN first /\ isdict(first["result"]))
            => resp.value["result"].d = Overwritten(first["result"].d)

(***************************************************************************)
(* The tool map is replaced as a whole.                                    *)
(***************************************************************************)
\* The latest request is an initialize or a tools/list that went upstream.
Merged == FanOutServed /\ Succeeded /\ sent # {}

\* The providers that the latest result reports with the given status.
Reported(status) ==
  {ReturnedInfo[k].provider : k \in {j \in 1..Len(ReturnedInfo) :
                                       ReturnedInfo[j].status = status}}

\* C35: initialize and a tools/list cache miss replace tool_name_map as a
\* whole: afterwards it holds the tools of the providers that the call
\* reports ok and nothing else, whatever it held before; a later tools/call
\* for a tool that resolved before and whose provider failed in the latest
\* call gets -32602.
C35_MapReplacedWholesale ==
  /\ Merged =>
       /\ DOMAIN ToolMap = {ReturnedTools[i].d["name"].v : i \in 1..Len(ReturnedTools)}
       /\ \A name \in DOMAIN ToolMap :
            /\ ToolMap[name].provider \in Reported("ok")
            /\ \E i \in 1..Len(ReturnedTools) :
                 /\ ReturnedTools[i].d["name"].v = name
                 /\ ToolProvider(ReturnedTools[i]) = ToolMap[name].provider
                 /\ ReturnedTools[i].d["description"].name = ToolMap[name].backend_tool_name
  /\ (/\ KnownServed /\ Served("tools/call") /\ isdict(CallParams)
      /\ CallName.t = "name"
      /\ resp.session \in DOMAIN inits
      /\ CallName.v \in DOMAIN inits[resp.session].tool_map \ DOMAIN ToolMap)
     => (ErrorCode = -32602 /\ sent = {})

\* A tool of provider a resolved after an initialize, a tools/list in which
\* a failed and b. answered replaced the map, and a tools/call for the tool
\* of a got -32602.
C35_Witness ==
  /\ KnownServed /\ Served("tools/call") /\ isdict(CallParams)
  /\ CallName.t = "name"
  /\ restarts = 0
  /\ resp.session \in DOMAIN inits
  /\ CallName.v \in DOMAIN inits[resp.session].tool_map \ DOMAIN ToolMap
  /\ inits[resp.session].tool_map[CallName.v].provider = PA
  /\ ToolMap # EmptyDict
  /\ ErrorCode = -32602

(***************************************************************************)
(* The cache of a tools/list in which providers failed.                    *)
(***************************************************************************)
\* A tools/list that went upstream leaves its result in the cache, and the
\* tools/list that follows a tools/list with failed providers within the
\* time to live is answered from that cache.
FailuresCached ==
  /\ (/\ RequestStep
      /\ Method(resp') = JStr("tools/list")
      /\ resp'.kind = "return" /\ "result" \in DOMAIN resp'.value
      /\ sent' # {})
     => LET runtime == runtimes'[resp'.session]
        IN /\ runtime.cached_tools # None
           /\ runtime.cached_tools.result = resp'.value["result"]
           /\ runtime.cached_tools_ts = float(now)
           /\ runtime.cached_tools_providers = frozenset(Range(runtime.connections))
  /\ (/\ Served("tools/list") /\ Succeeded
      /\ Reported("error") # {}
      /\ RequestStep
      /\ Method(resp') = JStr("tools/list")
      /\ resp'.session = resp.session
      /\ now - runtimes[resp.session].cached_tools_ts.v < CACHE_TTL_SECONDS)
     => (/\ resp'.kind = "return"
         /\ resp'.value["result"].d["server_info"] = resp.value["result"].d["server_info"]
         /\ resp'.value["result"].d["tools"] = resp.value["result"].d["tools"]
         /\ sent' = {}
         /\ runtimes'[resp.session].cached_tools = runtimes[resp.session].cached_tools
         /\ runtimes'[resp.session].cached_tools_ts = runtimes[resp.session].cached_tools_ts)

\* C36: tools/list writes its merged result to the cache also when some or
\* all of the providers failed in that call; a tools/list that follows
\* within 600 s on the same provider set returns the same error entries in
\* server_info and sends nothing to the providers that failed.
C36_FailuresAreCached == [][FailuresCached]_vars

\* A tools/list in which every provider failed filled the cache 300 s ago,
\* and the latest tools/list returned its two error entries from the cache.
C36_Witness ==
  /\ CacheHit
  /\ Reported("ok") = {}
  /\ Len(ReturnedInfo) = 2
  /\ now - runtimes[resp.session].cached_tools_ts.v = ClockStep

(***************************************************************************)
(* Runtime states rebuilt from the persistent records.                     *)
(***************************************************************************)
\* The session has no runtime state, or one that is as _build_runtime_state
\* made it.
Unwritten(session_id) ==
  session_id \in DOMAIN runtimes =>
    runtimes[session_id] = RuntimeSessionState(runtimes[session_id].connections)

\* C37: a runtime state rebuilt from the persistent record has an empty
\* tool_name_map, no tools cache and no captured provider headers; until an
\* initialize or a tools/list has completed on the session every tools/call
\* on it gets -32602, and the tools/call does not rebuild a missing runtime
\* state.
C37_RebuiltStartsEmpty ==
  /\ resp.op = "startup" => \A session_id \in DOMAIN runtimes : Unwritten(session_id)
  /\ (KnownServed /\ Served("tools/call") /\ restarts > 0 /\ Unwritten(resp.session))
     => /\ resp.kind = "return"
        /\ ErrorCode = -32602
        /\ sent = {}
        /\ resp.changed = {}

(***************************************************************************)
(* Concurrent get_runtime_state calls.  The requests are tasks of one      *)
(* event loop: a task runs until it is suspended at an await or returns.   *)
(* In get_runtime_state the only await that can suspend is the acquisition *)
(* of ConnectionManager._lock in get_or_create_handle.  seen holds, per    *)
(* session, which RuntimeSessionState object the runtime table holds: the  *)
(* task that constructed it.                                               *)
(***************************************************************************)
MaxRequests == 3

\* `async with self._lock` in get_or_create_handle: asyncio.Lock.acquire
\* suspends the caller only when the lock is held.
acquire_suspends_always(lk) == TRUE
acquire_suspends(lk) == lk.owner.t # "free"

\* _build_runtime_state from server i on, as far as the task runs without
\* being suspended; granted says that the task was just handed the lock.
RECURSIVE build_until_suspended(_, _, _, _, _, _, _, _, _)
build_until_suspended(reg, lk, db_session, id, i, pl, hs, names, granted) ==
  IF i > Len(db_session.servers)
  THEN [pc |-> "built", i |-> i, pool |-> pl, handles |-> hs, names |-> names]
  ELSE IF ~granted /\ acquire_suspends(lk)
  THEN [pc |-> "waiting", i |-> i, pool |-> pl, handles |-> hs, names |-> names]
  ELSE LET b == build_loop(reg, [db_session EXCEPT !.servers = SubSeq(@, 1, i)],
                           id, i, pl, hs, names)
       IN IF ~b.ok
          THEN [pc |-> "raised", i |-> i, pool |-> b.pool, handles |-> b.handles,
                names |-> names]
          ELSE build_until_suspended(reg, lk, db_session, id, i + 1, b.pool,
                                     b.handles, b.names, FALSE)

\* Two rows that another process sharing the database wrote after this
\* process started: the store has them, the runtime table does not.
RebuildInit ==
  \E S \in {create_sessions(InitialState,
                            <<<<(<<PA, PB>>), (PB :> ("token" :> JStr("t1")))>>,
                              <<(<<PA>>), EmptyDict>>>>)} :
    /\ registry = S.registry
    /\ store = S.store
    /\ runtimes = EmptyDict
    /\ pool = {}
    /\ handles = EmptyDict
    /\ idmap = S.idmap
    /\ nextId = S.nextId
    /\ now = S.now
    /\ resp = [op |-> "none"]
    /\ sent = {}
    /\ seen = EmptyDict
    /\ known = EmptyDict
    /\ inits = EmptyDict
    /\ tasks = [t \in 1..MaxRequests |-> Idle]
    /\ lock = FreeLock
    /\ ops = 0
    /\ restarts = 0
    /\ running = TRUE

RebuildFrame ==
  UNCHANGED <<registry, store, idmap, nextId, now, resp, sent, known, inits, lock, ops,
              restarts, running>>

\* The task's position after the part b of _build_runtime_state: at the
\* end of the build the new object is installed in the table and returned.
Built(t, session_id, b, missing) ==
  /\ pool' = b.pool
  /\ handles' = b.handles
  /\ tasks' = [tasks EXCEPT ![t] =
                 [pc |-> IF b.pc = "built" THEN "returned" ELSE b.pc,
                  session_id |-> session_id, runtime |-> t, i |-> b.i,
                  names |-> b.names, missing |-> missing]]
  /\ IF b.pc = "built"
     THEN /\ runtimes' = Put(runtimes, session_id,
                             RuntimeSessionState(DictKeys(b.names)))
          /\ seen' = Put(seen, session_id, t)
     ELSE UNCHANGED <<runtimes, seen>>

\* The event loop runs task t until it is suspended or get_runtime_state
\* returns: a new request calls get_runtime_state, or a task waiting for
\* the lock is handed it.
GetRuntimeState(t) ==
  /\ CASE tasks[t].pc = "idle" ->
            \E session_id \in DOMAIN store :
              IF session_id \in DOMAIN runtimes
              THEN /\ tasks' = [tasks EXCEPT ![t] =
                                  [pc |-> "returned", session_id |-> session_id,
                                   runtime |-> seen[session_id], i |-> 0,
                                   names |-> <<>>, missing |-> FALSE]]
                   /\ UNCHANGED <<runtimes, pool, handles, seen>>
              ELSE \E b \in {build_until_suspended(registry, lock, store[session_id],
                                                   session_id, 1, pool, handles, <<>>,
                                                   FALSE)} :
                     Built(t, session_id, b, TRUE)
       [] tasks[t].pc = "waiting" ->
            /\ lock.owner.t = "free"
            /\ \E b \in {build_until_suspended(registry, lock,
                                               store[tasks[t].session_id],
                                               tasks[t].session_id, tasks[t].i, pool,
                                               handles, tasks[t].names, TRUE)} :
                 Built(t, tasks[t].session_id, b, TRUE)
       [] OTHER -> FALSE
  /\ RebuildFrame

\* The request goes on with the object it got: call_provider captures PA's
\* session header in it.  The table shows the write when the object is the
\* one it holds.
Capture(t) ==
  /\ tasks[t].pc = "returned"
  /\ tasks' = [tasks EXCEPT ![t].pc = "wrote"]
  /\ runtimes' = IF seen[tasks[t].session_id] = tasks[t].runtime
                 THEN [runtimes EXCEPT ![tasks[t].session_id].provider_session_headers =
                                         Put(@, PA, S1)]
                 ELSE runtimes
  /\ UNCHANGED <<pool, handles, seen>>
  /\ RebuildFrame

RebuildNext ==
  \E t \in 1..MaxRequests :
    \/ GetRuntimeState(t)
    \/ Capture(t)

RebuildSpec == RebuildInit /\ [][RebuildNext]_vars

\* get_runtime_state has returned to task t.
Got(t) == tasks[t].pc \in {"returned", "wrote"}

\* C38: requests that call get_runtime_state concurrently for a session
\* whose runtime state is missing all end with the object left in the
\* runtime table, and what a request writes to its object is in the table.
C38_OneRuntimePerSession ==
  \A t \in 1..MaxRequests :
    /\ Got(t) => /\ tasks[t].session_id \in DOMAIN runtimes
                 /\ tasks[t].runtime = seen[tasks[t].session_id]
    /\ tasks[t].pc = "wrote" =>
         PA \in DOMAIN runtimes[tasks[t].session_id].provider_session_headers

\* Three requests on one session whose runtime state was missing: one built
\* it, the others found it, and two of them have written to it.
C38_Witness ==
  /\ \A t \in 1..MaxRequests : Got(t) /\ tasks[t].session_id = 1
  /\ \E t \in 1..MaxRequests : tasks[t].missing
  /\ \E t \in 1..MaxRequests : ~tasks[t].missing
  /\ Cardinality({t \in 1..MaxRequests : tasks[t].pc = "wrote"}) = 2

(***************************************************************************)
(* Several sessions in one process.  Session 1 was created here; the row   *)
(* of session 2 was written by another process sharing the database, so    *)
(* that the first request on it rebuilds its runtime state; a third can be *)
(* created at any time.                                                    *)
(***************************************************************************)
MaxIsolated == 3

TokenBag == (PB :> ("token" :> JStr("t1")))

IsoInit ==
  \E S \in {create_sessions(InitialState, <<<<(<<PA, PB>>), TokenBag>>>>)},
     T \in {create_sessions(InitialState, <<<<(<<PA, PB>>), TokenBag>>,
                                            <<(<<PA, PB>>), TokenBag>>>>)} :
    StartedFrom([S EXCEPT !.store = T.store])

\* POST /create-session while other sessions are in use.
IsoCreateSession ==
  \E servers \in {<<PA, PB>>, <<PA, PZ>>} :
    /\ Len(store) < MaxIsolated
    /\ \E out \in {create_session(State, servers, TokenBag)} :
       /\ store' = out.S.store
       /\ runtimes' = out.S.runtimes
       /\ pool' = out.S.pool
       /\ handles' = out.S.handles
       /\ resp' = [op |-> "create_session", servers |-> servers,
                   credentials |-> TokenBag,
                   status |-> IF out.ok THEN 201
                              ELSE IF out.exc = "ValueError" THEN 400 ELSE 500,
                   session |-> out.id,
                   changed |-> Changed(State, out.S)]
    /\ sent' = {}
    /\ UNCHANGED <<registry, idmap, nextId, now, seen, known, inits, tasks, lock, ops,
                   restarts, running>>

\* What the upstreams answer here: PA fails or lists two tools and sets a
\* session header, PB times out or lists one tool.
IsoUps ==
  {up \in Ups :
     up.reply[PA] \in {RequestError,
                       Response(200, "application/json", S1,
                                PlainBody(ListPayload(PA, <<Tool(PA, TXDot),
                                                            Tool(PA, TXUnd)>>)))}}
IsoCallReplies(n) ==
  {RequestError,
   Response(200, "application/json", S1, PlainBody(CallPayload(Absent, uuid4(n))))}
IsoBodies(method, params) == Bodies(FanoutEnvelopes, JStr(method), params)

IsoInitialize ==
  \E session_id \in DOMAIN store, body \in IsoBodies("initialize", Absent), up \in IsoUps :
    Serve(session_id, body, up, NoReply)

IsoToolsList ==
  \E session_id \in DOMAIN store, body \in IsoBodies("tools/list", Absent), up \in IsoUps :
    Serve(session_id, body, up, NoReply)

IsoToolsCall ==
  \E session_id \in DOMAIN store :
    \E params \in NamedParams(DOMAIN get_tool_mapping(runtimes, session_id)),
       reply \in IsoCallReplies(nextId + 1) :
      \E body \in IsoBodies("tools/call", params) :
        Serve(session_id, body, NoUps, reply)

IsoNext ==
  \/ IsoCreateSession
  \/ IsoInitialize
  \/ IsoToolsList
  \/ IsoToolsCall

IsoSpec == IsoInit /\ [][IsoNext]_vars

\* What the process holds for one session: the written fields of its
\* runtime state, its handles and its id-map entries.
Held(session_id) ==
  [runtime |-> IF session_id \in DOMAIN runtimes THEN Written(runtimes, session_id)
               ELSE None,
   handles |-> [k \in {k \in DOMAIN handles : k[1] = session_id} |-> handles[k]],
   ids |-> [p \in {p \in DOMAIN registry : key_(session_id, p) \in DOMAIN idmap} |->
              idmap[key_(session_id, p)]]]

\* The step is an operation on one session: what is held for every other
\* session stays, and what it sent went through handles of its session.
Isolated ==
  /\ \A session_id \in DOMAIN store :
       session_id # resp'.session => Held(session_id)' = Held(session_id)
  /\ \A r \in sent' : /\ r.session = resp'.session
                      /\ <<r.session, r.provider>> \in pool'

\* C39: an operation on a session leaves the tool map, the tools cache, the
\* captured headers, the handles and the id-map entries of every other
\* session unchanged, and sends upstream only through handles of its own
\* session.
C39_SessionsIsolated == [][Isolated]_vars

\* Session 1 has a tool map and id-map entries, and the latest request, on
\* session 2, rebuilt that session's runtime state and filled its tool map.
C39_Witness ==
  /\ Served("initialize") /\ Succeeded
  /\ resp.session = 2
  /\ get_tool_mapping(runtimes, 2) # EmptyDict
  /\ get_tool_mapping(runtimes, 1) # EmptyDict
  /\ \E p \in DOMAIN registry : key_(1, p) \in DOMAIN idmap
  /\ sent # {}

(***************************************************************************)
(* Upstream replies that carry another request's backend id.               *)
(***************************************************************************)
\* The id member of the payload that the provider returned to the forwarded
\* request r.
ReplyId(r) == Get(forward_outcome(r.reply).backend_payload.d, "id")

\* C40: a tools/call whose upstream reply carries an id other than the
\* backend id registered for it, such as the backend id of an earlier
\* tools/call of the session and provider, is answered with its own client
\* id.
C40_ForeignIdNotReturned ==
  (Served("tools/call") /\ Succeeded /\ sent # {}) =>
    \A r \in sent :
      ReplyId(r) # r.body.d["id"] => resp.value["id"] = Get(resp.body, "id")
====
